---------------------------- MODULE Spec2Model ----------------------------
(***************************************************************************)
(* Verification model of the mobilize OSINT assistant.                     *)
(*                                                                         *)
(*   - Praetor (src/src/ai.py): the coordinating agent whose tools are the *)
(*     three pipeline stages _research, _write_report and _reflect.        *)
(*   - SourceRegistry (src/src/source_registry.py): register / substitute. *)
(*                                                                         *)
(* Texts are sequences of one-character strings, so that the regular       *)
(* expressions and str.replace of the source are modelled character by     *)
(* character.                                                              *)
(***************************************************************************)
EXTENDS Integers, Sequences, FiniteSets, TLC

VARIABLES
    \* ---- Praetor.handle_query (one coordinator, one conversation) ----
    pc,             \* position of the turn in Agent.run / handle_query
    turn,           \* number of handle_query runs started so far
    researchCalls,  \* real Quaesitor.research invocations in this turn
    writeCalls,     \* real Nuntius.generate invocations in this turn
    reviewCalls,    \* real Cogitator.reflect invocations in this turn
    tool_return,    \* what the last stage returned to the coordinator's run
    \* ---- SourceRegistry ----
    sources,        \* _sources: insertion-ordered dict tag -> SourceItem
    url_to_tag,     \* _url_to_tag: dict url -> tag
    counter,        \* n of the _make_counter generator
    regUrl,         \* stripped url argument of the last register call
    ret,            \* value returned by the last register call
    issued,         \* history: the tags issued, in issue order
    lastTag,        \* history: url -> tag returned by the last register(url)
    subIn,          \* text last substituted against the present registry
    subOut,         \* its result
    subOut2,        \* result of substitute applied to that result
    MAX_HISTORY,    \* ChatHistoryManager.MAX_HISTORY (settings.MAX_HISTORY)
    messages,       \* the message list of the run, handed to update
    _histories,     \* ChatHistoryManager._histories: dict chat_id -> list
    tpc,            \* position in OllamaRetryTransport.handle_async_request
    request,        \* the request handle_async_request was called with
    sanitized,      \* the request after _sanitize_request (line 60)
    attempt,        \* the loop variable of handle_async_request
    sent,           \* the requests handed to the wrapped transport, in order
    responses,      \* status codes of the responses received, in order
    drained,        \* number of responses read to the end (aread)
    returned,       \* status code of the response returned, or NoResponse
    chat_histories, \* Praetor.chat_histories: dict chat_id -> message list
    handler,        \* the handler runs of the dispatcher, by update
    delivered,      \* the calls of each run's update_chat callback, in order
    replies,        \* the texts each handler run sent with message.reply
    built,          \* the last SourceDataBuilder.build call: its arguments,
                    \* the registry it started from and the text it returned
    \* ---- BrowserManager (tools/fetch_url.py) ----
    _playwright,    \* the Playwright handle, or NoObject for None
    _browser,       \* the Browser, or NoObject for None
    _idle_task,     \* the watchdog task, or NoObject for None
    idle,           \* loop time - _last_used, counted up to IDLE_TIMEOUT
    fetcher,        \* the calls of fetch in flight, by task
    watchdog,       \* the _idle_watchdog tasks created, by launch
    chromium,       \* the Chromium instances launched and not closed
    drivers,        \* the Playwright drivers started and not stopped
    launches,       \* number of async_playwright().start() that returned
    called          \* the last call of update or clear: its chat_id and the
                    \* histories of the manager before it

praetorVars == <<pc, turn, researchCalls, writeCalls, reviewCalls,
                 tool_return>>
registryVars == <<sources, url_to_tag, counter>>
historyVars == <<regUrl, ret, issued, lastTag>>
substVars == <<subIn, subOut, subOut2>>
chatVars == <<MAX_HISTORY, messages, _histories>>
transportVars == <<tpc, request, sanitized, attempt, sent, responses,
                   drained, returned>>
botVars == <<chat_histories, handler, delivered, replies>>
builderVars == <<built>>
browserVars == <<_playwright, _browser, _idle_task, idle, fetcher, watchdog,
                 chromium, drivers, launches>>
storeVars == <<called>>
vars == <<pc, turn, researchCalls, writeCalls, reviewCalls, tool_return,
          sources, url_to_tag, counter, regUrl, ret, issued, lastTag,
          subIn, subOut, subOut2, MAX_HISTORY, messages, _histories,
          tpc, request, sanitized, attempt, sent, responses, drained,
          returned, chat_histories, handler, delivered, replies, built,
          _playwright, _browser, _idle_task, idle, fetcher, watchdog,
          chromium, drivers, launches, called>>

---------------------------------------------------------------------------
(* Bounds of the model *)

\* registry capacity used by the model (the class attribute is 500)
MAX_SIZE == 2
\* tags issued per registry in a run of the model
MaxIssued == 4
\* largest configured MAX_HISTORY of the model (the default setting is 30)
MaxHistoryCfg == 5
\* longest message list handed to update
MaxMsgs == 5
\* stage invocations counted per turn
CallCap == 5
\* turns of one conversation
MaxTurns == 2
\* updates handled by the dispatcher in a run of the model
MaxHandlers == 3
\* status texts one turn hands to its callback
MaxStatus == 1
\* calls of BrowserManager.fetch that may be in flight together
MaxFetchers == 2
\* launches of Chromium in one behaviour
MaxLaunches == 2

---------------------------------------------------------------------------
(* Texts: sequences of characters *)

\* the characters matched by \w that occur in the model's texts
WordChars ==
    {"S", "O", "U", "R", "C", "E", "_", "T", "N", "x",
     "o", "u", "r", "c", "e", "v", "w", "y", "z",
     "0", "1", "2", "3", "4", "5", "6", "7", "8", "9"}

\* the characters matched by \s that occur in the model's texts
SpaceChars == {" ", "\n"}

IsWordCh(c) == c \in WordChars
IsSpaceCh(c) == c \in SpaceChars

\* the literal "SOURCE_" of the tag syntax
PFX == <<"S", "O", "U", "R", "C", "E", "_">>

DigitChars == <<"0", "1", "2", "3", "4", "5", "6", "7", "8", "9">>

\* str(n) of a positive integer
RECURSIVE Digits(_)
Digits(n) ==
    IF n < 10 THEN <<DigitChars[n + 1]>>
    ELSE Digits(n \div 10) \o <<DigitChars[(n % 10) + 1]>>

\* f"[SOURCE_{n}]"
TagStr(n) == <<"[">> \o PFX \o Digits(n) \o <<"]">>

\* SourceItem's default title
DefaultTitle == <<"S", "o", "u", "r", "c", "e">>

\* f"[{item.title}]({item.url})"
Link(item) == <<"[">> \o item.title \o <<"]", "(">> \o item.url \o <<")">>

\* concatenation of a sequence of texts
RECURSIVE Cat(_)
Cat(ts) == IF ts = <<>> THEN <<>> ELSE Head(ts) \o Cat(Tail(ts))

\* str.strip(): leading and trailing whitespace removed
RECURSIVE LStrip(_)
LStrip(t) ==
    IF t # <<>> /\ IsSpaceCh(Head(t)) THEN LStrip(Tail(t)) ELSE t

RECURSIVE RStrip(_)
RStrip(t) ==
    IF t # <<>> /\ IsSpaceCh(t[Len(t)]) THEN RStrip(SubSeq(t, 1, Len(t) - 1))
    ELSE t

Strip(t) == RStrip(LStrip(t))

\* does p occur in t at position i
OccursAt(t, p, i) ==
    /\ i >= 1
    /\ i + Len(p) - 1 <= Len(t)
    /\ SubSeq(t, i, i + Len(p) - 1) = p

\* p in t
Contains(t, p) == \E i \in 1..(Len(t) - Len(p) + 1) : OccursAt(t, p, i)

\* number of positions of t at which p occurs
Count(t, p) == Cardinality({i \in 1..Len(t) : OccursAt(t, p, i)})

\* t.replace(old, new): leftmost non-overlapping occurrences, old non-empty
RECURSIVE ReplaceFrom(_, _, _, _)
ReplaceFrom(t, old, new, i) ==
    IF i > Len(t) THEN <<>>
    ELSE IF OccursAt(t, old, i) THEN new \o ReplaceFrom(t, old, new, i + Len(old))
    ELSE <<t[i]>> \o ReplaceFrom(t, old, new, i + 1)

Replace(t, old, new) == ReplaceFrom(t, old, new, 1)

\* last index of the maximal run of \w characters starting at i (i-1 if none)
RECURSIVE WordRunEnd(_, _)
WordRunEnd(t, i) ==
    IF i <= Len(t) /\ IsWordCh(t[i]) THEN WordRunEnd(t, i + 1) ELSE i - 1

\* last index of the maximal run of \s characters starting at i (i-1 if none)
RECURSIVE SpaceRunEnd(_, _)
SpaceRunEnd(t, i) ==
    IF i <= Len(t) /\ IsSpaceCh(t[i]) THEN SpaceRunEnd(t, i + 1) ELSE i - 1

\* SOURCE_\w+ matched greedily at i: index of its last character, 0 if no match
BareTagEnd(t, i) ==
    IF OccursAt(t, PFX, i) /\ WordRunEnd(t, i + Len(PFX)) >= i + Len(PFX)
    THEN WordRunEnd(t, i + Len(PFX))
    ELSE 0

\* \[SOURCE_\w+\] matched at i: index of the closing bracket, 0 if no match
BracketTagEnd(t, i) ==
    IF i <= Len(t) /\ t[i] = "["
    THEN LET e == BareTagEnd(t, i + 1)
         IN IF e > 0 /\ e + 1 <= Len(t) /\ t[e + 1] = "]" THEN e + 1 ELSE 0
    ELSE 0

\* does the text contain the bracketed tag syntax \[SOURCE_\w+\]
HasTagSyntax(t) == \E i \in 1..Len(t) : BracketTagEnd(t, i) > 0

---------------------------------------------------------------------------
(* SourceRegistry._expand_compound_tags *)

\* (?:\s*,\s*SOURCE_\w+)+ after a tag ending at e: the end of the last
\* repetition that matches (e itself when none does)
RECURSIVE ChainEnd(_, _)
ChainEnd(t, e) ==
    LET p == SpaceRunEnd(t, e + 1) + 1
    IN IF p <= Len(t) /\ t[p] = ","
       THEN LET q == SpaceRunEnd(t, p + 1) + 1
                e2 == BareTagEnd(t, q)
            IN IF e2 > 0 THEN ChainEnd(t, e2) ELSE e
       ELSE e

\* \[(SOURCE_\w+(?:\s*,\s*SOURCE_\w+)+)\] matched at i: index of the closing
\* bracket, 0 if no match
CompoundEnd(t, i) ==
    IF i <= Len(t) /\ t[i] = "["
    THEN LET e1 == BareTagEnd(t, i + 1)
         IN IF e1 = 0 THEN 0
            ELSE LET ce == ChainEnd(t, e1)
                 IN IF ce > e1 /\ ce + 1 <= Len(t) /\ t[ce + 1] = "]"
                    THEN ce + 1 ELSE 0
    ELSE 0

\* re.findall(r'SOURCE_\w+', g), scanning from i
RECURSIVE FindAllTags(_, _)
FindAllTags(g, i) ==
    IF i > Len(g) THEN <<>>
    ELSE LET e == BareTagEnd(g, i)
         IN IF e > 0 THEN <<SubSeq(g, i, e)>> \o FindAllTags(g, e + 1)
            ELSE FindAllTags(g, i + 1)

\* ' '.join(f'[{t}]' for t in tags)
RECURSIVE JoinBracketed(_)
JoinBracketed(tags) ==
    IF tags = <<>> THEN <<>>
    ELSE IF Len(tags) = 1 THEN <<"[">> \o tags[1] \o <<"]">>
    ELSE <<"[">> \o tags[1] \o <<"]", " ">> \o JoinBracketed(Tail(tags))

expand(t, i, e) == JoinBracketed(FindAllTags(SubSeq(t, i + 1, e - 1), 1))

RECURSIVE ExpandFrom(_, _)
ExpandFrom(t, i) ==
    IF i > Len(t) THEN <<>>
    ELSE LET e == CompoundEnd(t, i)
         IN IF e > 0 THEN expand(t, i, e) \o ExpandFrom(t, e + 1)
            ELSE <<t[i]>> \o ExpandFrom(t, i + 1)

_expand_compound_tags(t) == ExpandFrom(t, 1)

---------------------------------------------------------------------------
(* SourceRegistry._normalize_bare_tags *)

\* (?<!\[)(SOURCE_\w+)(?!\]) matched at i: index of the last character of
\* group 1, 0 if no match.  \w+ is greedy and gives back one character when
\* the maximal run is followed by "]".
NormalizeEnd(t, i) ==
    IF i > 1 /\ t[i - 1] = "[" THEN 0
    ELSE LET e == BareTagEnd(t, i)
         IN IF e = 0 THEN 0
            ELSE IF e = Len(t) \/ t[e + 1] # "]" THEN e
            ELSE IF e - 1 >= i + Len(PFX) THEN e - 1
            ELSE 0

RECURSIVE NormalizeFrom(_, _)
NormalizeFrom(t, i) ==
    IF i > Len(t) THEN <<>>
    ELSE LET e == NormalizeEnd(t, i)
         IN IF e > 0
            THEN <<"[">> \o SubSeq(t, i, e) \o <<"]">> \o NormalizeFrom(t, e + 1)
            ELSE <<t[i]>> \o NormalizeFrom(t, i + 1)

_normalize_bare_tags(t) == NormalizeFrom(t, 1)

---------------------------------------------------------------------------
(* SourceRegistry.substitute *)

\* the primary pass: for tag, item in self._sources.items(): text.replace
RECURSIVE PrimaryPass(_, _)
PrimaryPass(t, srcs) ==
    IF srcs = <<>> THEN t
    ELSE PrimaryPass(Replace(t, Head(srcs).tag, Link(Head(srcs))), Tail(srcs))

\* a fallback pass that does not keep the seen set
RECURSIVE FallbackPassNoSeen(_, _, _)
FallbackPassNoSeen(t, srcs, seen) ==
    IF srcs = <<>> THEN t
    ELSE LET item == Head(srcs)
             name == item.source_name
             pattern == <<"(">> \o name \o <<")">>
         IN IF name = <<>>
            THEN FallbackPassNoSeen(t, Tail(srcs), seen)
            ELSE FallbackPassNoSeen(
                     IF Contains(t, pattern) THEN Replace(t, pattern, Link(item))
                     ELSE t,
                     Tail(srcs), seen)

\* the fallback pass over self._sources.values() with the seen set
RECURSIVE FallbackPass(_, _, _)
FallbackPass(t, srcs, seen) ==
    IF srcs = <<>> THEN t
    ELSE LET item == Head(srcs)
             name == item.source_name
             pattern == <<"(">> \o name \o <<")">>
         IN IF name = <<>> \/ name \in seen
            THEN FallbackPass(t, Tail(srcs), seen)
            ELSE FallbackPass(
                     IF Contains(t, pattern) THEN Replace(t, pattern, Link(item))
                     ELSE t,
                     Tail(srcs), seen \cup {name})

\* re.sub(r'\[SOURCE_\w+\]', '', text)
RECURSIVE StripFrom(_, _)
StripFrom(t, i) ==
    IF i > Len(t) THEN <<>>
    ELSE LET e == BracketTagEnd(t, i)
         IN IF e > 0 THEN StripFrom(t, e + 1)
            ELSE <<t[i]>> \o StripFrom(t, i + 1)

StripStrayTags(t) == StripFrom(t, 1)

substitute(srcs, text) ==
    IF text = <<>> THEN text
    ELSE StripStrayTags(
             FallbackPass(
                 PrimaryPass(_normalize_bare_tags(_expand_compound_tags(text)),
                             srcs),
                 srcs, {}))

---------------------------------------------------------------------------
(* Inputs of the registry operations *)

UrlChars == <<"u", "v", "w", "y", "z">>

\* MAX_SIZE + 1 distinct canonical urls
Urls == {<<UrlChars[i]>> : i \in 1..(MAX_SIZE + 1)}

\* url arguments as callers pass them: canonical, padded, empty, blank
RawUrls == Urls \cup {<<" ", "u", " ">>, <<>>, <<" ">>}

\* (title, source_name) arguments: no title and no origin, a plain title
\* with an origin, a title that carries its origin in parentheses
Metas ==
    { [title |-> <<>>, source_name |-> <<>>],
      [title |-> <<"T">>, source_name |-> <<"N">>],
      [title |-> <<"T", "(", "N", ")">>, source_name |-> <<"N">>] }

Bare(n) == PFX \o Digits(n)

\* the texts handed to substitute
Texts ==
    { <<>>,
      <<"x">>,
      TagStr(1),
      TagStr(2),
      TagStr(3),
      Cat(<<TagStr(1), <<"x">>, TagStr(1)>>),
      Cat(<<TagStr(2), <<" ">>, TagStr(3)>>),
      Cat(<<<<"[">>, Bare(1), <<",", " ">>, Bare(2), <<"]">>>>),
      Cat(<<<<"[">>, Bare(2), <<",">>, Bare(3), <<"]">>>>),
      Cat(<<<<"[">>, Bare(3), <<" ", ",">>, Bare(2), <<",", " ">>, Bare(1), <<"]">>>>),
      Cat(<<<<"[">>, Bare(1), <<",", " ">>, Bare(2)>>),
      Bare(1),
      Bare(2),
      Cat(<<<<"*">>, Bare(2), <<"*">>>>),
      Cat(<<<<"(">>, Bare(1), <<")">>>>),
      Cat(<<<<"(">>, Bare(1), <<",", " ">>, Bare(2), <<")">>>>),
      Cat(<<Bare(1), <<"2", "]">>>>),
      Cat(<<Bare(1), <<"]">>>>),
      Cat(<<<<"[">>, Bare(1)>>),
      Cat(<<<<"[">>, Bare(1), TagStr(2), <<"]">>>>),
      Cat(<<<<"[">>, PFX, TagStr(1), <<"1", "]">>>>),
      Cat(<<<<"[">>, TagStr(2), <<"]">>>>),
      <<"(", "N", ")">>,
      Cat(<<<<"(", "N", ")", " ">>, TagStr(1), <<" ", "(", "N", ")">>>>) }

\* the arguments above and an entry of a second origin
OriginMetas == Metas \cup {[title |-> <<>>, source_name |-> <<"M">>]}

\* texts that cite sources by origin name
OriginTexts ==
    { <<"(", "N", ")">>,
      <<"(", "M", ")">>,
      <<"(", "N", ")", " ", "(", ")", " ", "(", "M", ")", "(", "N", ")">>,
      Cat(<<<<"(", "N", ")", " ">>, TagStr(1), <<" ", "(", "M", ")">>>>) }

NoText == <<"-">>

\* no request handed to the transport yet, no response returned yet
NoRequest == [content |-> <<"-">>]

NoResponse == 0

\* build has not been called
NoBuild ==
    [pc |-> "none", messages |-> <<>>, registry |-> "None",
     before |-> [srcs |-> <<>>, u2t |-> [u \in {} |-> <<>>], n |-> 0],
     text |-> <<>>]

\* no stage has returned to the coordinator's run
NoReturn == [tool |-> "none", output |-> <<>>, text |-> <<>>]

\* a handler run whose update has not arrived yet
NoHandler ==
    [pc |-> "waiting", kind |-> "none", chat_id |-> 0,
     message_history |-> <<>>, final_response |-> <<>>]

\* no call of the manager yet
NoCall == [op |-> "none", chat_id |-> 0, before |-> [c \in {} |-> <<>>]]

\* None, where an object of Playwright or a task may stand
NoObject == 0

\* BrowserManager.IDLE_TIMEOUT and CHECK_INTERVAL, in seconds
CHECK_INTERVAL == 60
IDLE_TIMEOUT == 10 * CHECK_INTERVAL

\* a task slot in which no call of fetch is running
NoFetch == [pc |-> "idle", browser |-> NoObject, closing |-> NoObject,
            result |-> "none"]

\* a watchdog task that has not been created
NoWatchdog == [pc |-> "none", cancel |-> FALSE, due |-> FALSE,
               closing |-> NoObject]

---------------------------------------------------------------------------
(* Initial state: a coordinator with no turn running, an empty registry *)

InitWith(max_history) ==
    /\ pc = "idle"
    /\ turn = 0
    /\ researchCalls = 0
    /\ writeCalls = 0
    /\ reviewCalls = 0
    /\ tool_return = NoReturn
    /\ sources = <<>>
    /\ url_to_tag = [u \in {} |-> <<>>]
    /\ counter = 0
    /\ regUrl = <<>>
    /\ ret = <<>>
    /\ issued = <<>>
    /\ lastTag = [u \in Urls |-> <<>>]
    /\ subIn = NoText
    /\ subOut = NoText
    /\ subOut2 = NoText
    /\ MAX_HISTORY = max_history
    /\ messages = <<>>
    /\ _histories = [c \in {} |-> <<>>]
    /\ tpc = "idle"
    /\ request = NoRequest
    /\ sanitized = NoRequest
    /\ attempt = 0
    /\ sent = <<>>
    /\ responses = <<>>
    /\ drained = 0
    /\ returned = NoResponse
    /\ chat_histories = [c \in {} |-> <<>>]
    /\ handler = [h \in 1..MaxHandlers |-> NoHandler]
    /\ delivered = [h \in 1..MaxHandlers |-> <<>>]
    /\ replies = [h \in 1..MaxHandlers |-> <<>>]
    /\ built = NoBuild
    /\ _playwright = NoObject
    /\ _browser = NoObject
    /\ _idle_task = NoObject
    /\ idle = IDLE_TIMEOUT
    /\ fetcher = [f \in 1..MaxFetchers |-> NoFetch]
    /\ watchdog = [w \in 1..MaxLaunches |-> NoWatchdog]
    /\ chromium = {}
    /\ drivers = {}
    /\ launches = 0
    /\ called = NoCall

\* the default configuration
Init == InitWith(MaxHistoryCfg)

---------------------------------------------------------------------------
(* SourceRegistry.register *)

\* the dict without key k
DictRemove(d, k) == [x \in (DOMAIN d) \ {k} |-> d[x]]

\* the dict with d[k] = v
DictPut(d, k, v) == [x \in (DOMAIN d) \cup {k} |-> IF x = k THEN v ELSE d[x]]

\* a registry that drops its newest entry when at capacity
EvictNewest(srcs, u2t) ==
    IF Len(srcs) >= MAX_SIZE
    THEN [srcs |-> SubSeq(srcs, 1, Len(srcs) - 1),
          u2t |-> DictRemove(u2t, srcs[Len(srcs)].url)]
    ELSE [srcs |-> srcs, u2t |-> u2t]

\* an eviction that drops the oldest entry and keeps its url in the index
EvictOldestKeepIndex(srcs, u2t) ==
    IF Len(srcs) >= MAX_SIZE
    THEN [srcs |-> Tail(srcs), u2t |-> u2t]
    ELSE [srcs |-> srcs, u2t |-> u2t]

\* the eviction branch of register: the registry after dropping the oldest
\* entry when at capacity
EvictOldest(srcs, u2t) ==
    IF Len(srcs) >= MAX_SIZE
    THEN [srcs |-> Tail(srcs), u2t |-> DictRemove(u2t, Head(srcs).url)]
    ELSE [srcs |-> srcs, u2t |-> u2t]

\* a registry that numbers a new tag by the number of entries it holds
NewEntryBySize(srcs, u2t, n, url, title, source_name) ==
    LET kept == EvictOldest(srcs, u2t)
        tag == TagStr(Len(kept.srcs) + 1)
        item == [tag |-> tag,
                 url |-> url,
                 title |-> IF title # <<>> THEN title ELSE DefaultTitle,
                 source_name |-> source_name]
    IN [srcs |-> Append(kept.srcs, item),
        u2t |-> DictPut(kept.u2t, url, tag),
        n |-> n + 1,
        ret |-> tag]

\* a registry that gives a new entry the tag of the entry it evicts
NewEntryReusing(srcs, u2t, n, url, title, source_name) ==
    LET kept == EvictOldest(srcs, u2t)
        tag == IF Len(srcs) >= MAX_SIZE THEN Head(srcs).tag ELSE TagStr(n + 1)
        item == [tag |-> tag,
                 url |-> url,
                 title |-> IF title # <<>> THEN title ELSE DefaultTitle,
                 source_name |-> source_name]
    IN [srcs |-> Append(kept.srcs, item),
        u2t |-> DictPut(kept.u2t, url, tag),
        n |-> n + 1,
        ret |-> tag]

\* register for a url that is not in the registry: evict when at capacity,
\* take the next counter value, store the entry, return the new tag
NewEntry(srcs, u2t, n, url, title, source_name) ==
    LET kept == EvictOldest(srcs, u2t)
        tag == TagStr(n + 1)
        item == [tag |-> tag,
                 url |-> url,
                 title |-> IF title # <<>> THEN title ELSE DefaultTitle,
                 source_name |-> source_name]
    IN [srcs |-> Append(kept.srcs, item),
        u2t |-> DictPut(kept.u2t, url, tag),
        n |-> n + 1,
        ret |-> tag]

\* a register that never looks the url up
registerNoDedup(srcs, u2t, n, rawUrl, title, source_name) ==
    LET url == Strip(rawUrl)
    IN IF url = <<>>
       THEN [srcs |-> srcs, u2t |-> u2t, n |-> n, ret |-> <<>>]
       ELSE NewEntry(srcs, u2t, n, url, title, source_name)

\* a register that stores the title and origin of the latest call for a url
\* that is already live
registerLastWins(srcs, u2t, n, rawUrl, title, source_name) ==
    LET url == Strip(rawUrl)
    IN IF url = <<>>
       THEN [srcs |-> srcs, u2t |-> u2t, n |-> n, ret |-> <<>>]
       ELSE IF url \in DOMAIN u2t
       THEN [srcs |-> [i \in 1..Len(srcs) |->
                        IF srcs[i].url = url
                        THEN [srcs[i] EXCEPT
                                 !.title = IF title # <<>> THEN title
                                           ELSE DefaultTitle,
                                 !.source_name = source_name]
                        ELSE srcs[i]],
             u2t |-> u2t, n |-> n, ret |-> u2t[url]]
       ELSE NewEntry(srcs, u2t, n, url, title, source_name)

\* register on the registry (srcs, u2t, n): the registry after the call and
\* the returned tag
register(srcs, u2t, n, rawUrl, title, source_name) ==
    LET url == Strip(rawUrl)
    IN IF url = <<>>
       THEN [srcs |-> srcs, u2t |-> u2t, n |-> n, ret |-> <<>>]
       ELSE IF url \in DOMAIN u2t
       THEN [srcs |-> srcs, u2t |-> u2t, n |-> n, ret |-> u2t[url]]
       ELSE NewEntry(srcs, u2t, n, url, title, source_name)

\* the effect of one register call on the registry; calls that would take
\* the counter beyond MaxIssued are left out of the model.  subIn, subOut
\* and subOut2 describe the present registry, so a call that changes the
\* registry clears them.
RegisterCall(rawUrl, title, source_name) ==
    LET r == register(sources, url_to_tag, counter, rawUrl, title, source_name)
    IN /\ r.n <= MaxIssued
       /\ sources' = r.srcs
       /\ url_to_tag' = r.u2t
       /\ counter' = r.n
       /\ IF r.srcs = sources
          THEN UNCHANGED <<subIn, subOut, subOut2>>
          ELSE subIn' = NoText /\ subOut' = NoText /\ subOut2' = NoText

\* register, with the returned tag and the history of the calls recorded
Register ==
    \E rawUrl \in RawUrls, m \in Metas :
        LET r == register(sources, url_to_tag, counter,
                          rawUrl, m.title, m.source_name)
            url == Strip(rawUrl)
        IN /\ RegisterCall(rawUrl, m.title, m.source_name)
           /\ regUrl' = url
           /\ ret' = r.ret
           /\ issued' = IF r.n > counter THEN Append(issued, r.ret) ELSE issued
           /\ lastTag' = IF r.ret # <<>> THEN [lastTag EXCEPT ![url] = r.ret]
                         ELSE lastTag
           /\ UNCHANGED <<storeVars, browserVars, builderVars, botVars, praetorVars, chatVars, transportVars>>

\* register as the research passes use it while texts are substituted
RegisterSource ==
    \E rawUrl \in RawUrls, m \in Metas :
        /\ RegisterCall(rawUrl, m.title, m.source_name)
        /\ UNCHANGED <<storeVars, browserVars, builderVars, botVars, praetorVars, historyVars, chatVars, transportVars>>

---------------------------------------------------------------------------
(* SourceRegistry.substitute *)

\* substitute called on a text.  substitute reads the registry and changes
\* nothing, so its calls do not influence one another: the model records
\* one call for each state of the registry.
Substitute ==
    \E t \in Texts :
        /\ subIn = NoText
        /\ subIn' = t
        /\ subOut' = substitute(sources, t)
        /\ subOut2' = NoText
        /\ UNCHANGED <<storeVars, browserVars, builderVars, botVars, praetorVars, registryVars, historyVars,
                       chatVars, transportVars>>

\* substitute called on the result of the last call
SubstituteAgain ==
    /\ subOut # NoText
    /\ subOut2 = NoText
    /\ subOut2' = substitute(sources, subOut)
    /\ UNCHANGED <<storeVars, browserVars, builderVars, botVars, praetorVars, registryVars, historyVars, subIn, subOut,
                   chatVars, transportVars>>

\* register with entries of two origins
RegisterOrigin ==
    \E rawUrl \in RawUrls, m \in OriginMetas :
        /\ RegisterCall(rawUrl, m.title, m.source_name)
        /\ UNCHANGED <<storeVars, browserVars, builderVars, botVars, praetorVars, historyVars, chatVars, transportVars>>

\* substitute called on a text that cites by origin name
SubstituteOrigins ==
    \E t \in OriginTexts :
        /\ subIn = NoText
        /\ subIn' = t
        /\ subOut' = substitute(sources, t)
        /\ subOut2' = NoText
        /\ UNCHANGED <<storeVars, browserVars, builderVars, botVars, praetorVars, registryVars, historyVars,
                       chatVars, transportVars>>

RegistryNext == Register

Spec == Init /\ [][RegistryNext]_vars

SubstNext == RegisterSource \/ Substitute \/ SubstituteAgain

SubstSpec == Init /\ [][SubstNext]_vars

FallbackNext == RegisterOrigin \/ SubstituteOrigins

FallbackSpec == Init /\ [][FallbackNext]_vars

---------------------------------------------------------------------------
(* The agents of src/src/ai.py: what they do with the output of their run *)

ThinkOpen == <<"<", "t", "h", "i", "n", "k", ">">>

ThinkClose == <<"<", "/", "t", "h", "i", "n", "k", ">">>

\* re.sub(r'<think>.*?</think>\s*', '', text, flags=re.DOTALL)
RECURSIVE StripThinkFrom(_, _)
StripThinkFrom(t, i) ==
    IF i > Len(t) THEN <<>>
    ELSE IF /\ OccursAt(t, ThinkOpen, i)
            /\ \E j \in (i + Len(ThinkOpen))..Len(t) : OccursAt(t, ThinkClose, j)
         THEN LET j == CHOOSE j \in (i + Len(ThinkOpen))..Len(t) :
                           /\ OccursAt(t, ThinkClose, j)
                           /\ \A k \in (i + Len(ThinkOpen))..(j - 1) :
                                  ~OccursAt(t, ThinkClose, k)
              IN StripThinkFrom(t, SpaceRunEnd(t, j + Len(ThinkClose)) + 1)
         ELSE <<t[i]>> \o StripThinkFrom(t, i + 1)

strip_think_tags(text) == StripThinkFrom(text, 1)

LowerChars ==
    <<"a", "b", "c", "d", "e", "f", "g", "h", "i", "j", "k", "l", "m", "n", "o", "p", "q", "r", "s", "t", "u", "v", "w", "x", "y", "z">>

UpperChars ==
    <<"A", "B", "C", "D", "E", "F", "G", "H", "I", "J", "K", "L", "M", "N", "O", "P", "Q", "R", "S", "T", "U", "V", "W", "X", "Y", "Z">>

\* str.upper() of one character of the model's texts
UpperCh(c) ==
    IF \E i \in 1..Len(LowerChars) : LowerChars[i] = c
    THEN UpperChars[CHOOSE i \in 1..Len(LowerChars) : LowerChars[i] = c]
    ELSE c

\* str.upper()
Upper(t) == [i \in 1..Len(t) |-> UpperCh(t[i])]

\* str.startswith
StartsWith(t, p) == OccursAt(t, p, 1)

APPROVED == <<"A", "P", "P", "R", "O", "V", "E", "D">>

IMPROVE == <<"I", "M", "P", "R", "O", "V", "E">>

\* Quaesitor.research: the output of the research run
research(output) == output

\* Nuntius.generate: the output of the writer's run without think blocks
generate(output) == strip_think_tags(output)

\* Cogitator.reflect without the case normalisation
reflectNoUpper(output) ==
    LET feedback == strip_think_tags(output) IN
    [approved |-> StartsWith(Strip(feedback), APPROVED),
     feedback |-> feedback]

\* Cogitator.reflect: (approved, feedback)
reflect(output) ==
    LET feedback == strip_think_tags(output) IN
    [approved |-> StartsWith(Upper(Strip(feedback)), APPROVED),
     feedback |-> feedback]

---------------------------------------------------------------------------
(* Praetor: one turn is one handle_query run.  Agent.run lets the           *)
(* coordinating model answer repeatedly; each answer either asks for one of *)
(* the three tools or is the final text.                                    *)

Stages == {"research", "write", "reflect"}

\* handle_query is entered: Agent.run starts with the stored history
handle_query ==
    /\ pc \in {"idle", "DONE", "FAILED"}
    /\ turn < MaxTurns
    /\ turn' = turn + 1
    /\ pc' = "THINKING"
    /\ researchCalls' = 0
    /\ writeCalls' = 0
    /\ reviewCalls' = 0
    /\ tool_return' = NoReturn
    /\ UNCHANGED <<storeVars, browserVars, builderVars, botVars, registryVars, historyVars, substVars,
                   chatVars, transportVars>>

\* the coordinating model, having read what the last stage returned, asks
\* for a tool (counted up to CallCap per stage)
CoordinatorCallsTool ==
    \E stage \in Stages :
        /\ pc = "THINKING"
        /\ stage = "research" => researchCalls < CallCap
        /\ stage = "write" => writeCalls < CallCap
        /\ stage = "reflect" => reviewCalls < CallCap
        /\ pc' = stage
        /\ tool_return' = NoReturn
        /\ UNCHANGED <<storeVars, browserVars, builderVars, botVars, turn, researchCalls, writeCalls, reviewCalls,
                       registryVars, historyVars, substVars,
                       chatVars, transportVars>>

\* the outputs of the research run and of the writer's run
ResearchOutputs == {<<"f">>}

WriterOutputs == {<<"D">>, ThinkOpen \o <<"x">> \o ThinkClose \o <<"E">>}

\* the outputs of the reviewer's run: a beginning, a verdict word, an end
ReviewerPrefixes ==
    {<<>>,
     <<" ">>,
     <<"\n">>,
     <<"<", "t", "h", "i", "n", "k", ">", "x", "<", "/", "t", "h", "i", "n", "k", ">">>,
     <<"<", "t", "h", "i", "n", "k", ">", "x", "<", "/", "t", "h", "i", "n", "k", ">", "\n", " ">>,
     <<"<", "t", "h", "i", "n", "k", ">", "A", "P", "P", "R", "O", "V", "E", "D", "<", "/", "t", "h", "i", "n", "k", ">">>,
     <<"x">>}

ReviewerWords ==
    {<<"A", "P", "P", "R", "O", "V", "E", "D">>,
     <<"a", "p", "p", "r", "o", "v", "e", "d">>,
     <<"A", "p", "p", "r", "o", "v", "e", "d">>,
     <<"A", "P", "P", "R", "O", "V", "E">>,
     <<"I", "M", "P", "R", "O", "V", "E">>,
     <<"N", "O", "T", " ", "A", "P", "P", "R", "O", "V", "E", "D">>,
     <<>>}

ReviewerSuffixes ==
    {<<>>,
     <<":", " ", "o", "k">>,
     <<"\n", "A", "P", "P", "R", "O", "V", "E", "D">>}

ReviewerOutputs ==
    {a \o w \o z : a \in ReviewerPrefixes, w \in ReviewerWords,
                   z \in ReviewerSuffixes}

\* Praetor._research: Quaesitor.research is awaited and its output returned
_research ==
    \E output \in ResearchOutputs :
        /\ pc = "research"
        /\ researchCalls' = researchCalls + 1
        /\ tool_return' = [tool |-> "research", output |-> output,
                           text |-> research(output)]
        /\ pc' = "THINKING"
        /\ UNCHANGED <<storeVars, browserVars, builderVars, botVars, turn, writeCalls, reviewCalls,
                       registryVars, historyVars, substVars,
                       chatVars, transportVars>>

\* Praetor._write_report: Nuntius.generate is awaited and its output returned
_write_report ==
    \E output \in WriterOutputs :
        /\ pc = "write"
        /\ writeCalls' = writeCalls + 1
        /\ tool_return' = [tool |-> "write", output |-> output,
                           text |-> generate(output)]
        /\ pc' = "THINKING"
        /\ UNCHANGED <<storeVars, browserVars, builderVars, botVars, turn, researchCalls, reviewCalls,
                       registryVars, historyVars, substVars,
                       chatVars, transportVars>>

\* Praetor._reflect: Cogitator.reflect is awaited and
\* f"{'APPROVED' if approved else 'IMPROVE'}:\n{feedback}" returned
_reflect ==
    \E output \in ReviewerOutputs :
        /\ pc = "reflect"
        /\ reviewCalls' = reviewCalls + 1
        /\ tool_return' =
               [tool |-> "reflect", output |-> output,
                text |-> (IF reflect(output).approved THEN APPROVED
                          ELSE IMPROVE)
                         \o <<":", "\n">> \o reflect(output).feedback]
        /\ pc' = "THINKING"
        /\ UNCHANGED <<storeVars, browserVars, builderVars, botVars, turn, researchCalls, writeCalls,
                       registryVars, historyVars, substVars,
                       chatVars, transportVars>>

\* the coordinating model answers with the final text: the history is
\* stored and the text handed to update_chat
FinalResponse ==
    /\ pc = "THINKING"
    /\ pc' = "DONE"
    /\ tool_return' = NoReturn
    /\ UNCHANGED <<storeVars, browserVars, builderVars, botVars, turn, researchCalls, writeCalls, reviewCalls,
                   registryVars, historyVars, substVars,
                   chatVars, transportVars>>

\* a model or tool call of the run raises: Agent.run raises
RunRaises ==
    /\ pc \in {"THINKING"} \cup Stages
    /\ pc' = "FAILED"
    /\ tool_return' = NoReturn
    /\ UNCHANGED <<storeVars, browserVars, builderVars, botVars, turn, researchCalls, writeCalls, reviewCalls,
                   registryVars, historyVars, substVars,
                   chatVars, transportVars>>

PraetorNext ==
    \/ handle_query
    \/ CoordinatorCallsTool
    \/ _research
    \/ _write_report
    \/ _reflect
    \/ FinalResponse
    \/ RunRaises

PraetorSpec == Init /\ [][PraetorNext]_vars

\* C1: in every turn the research agent is invoked at most 3 times, the
\* writer at most 4 times and the reviewer at most 3 times.
C1_StageCeilings ==
    /\ researchCalls <= 3
    /\ writeCalls <= 4
    /\ reviewCalls <= 3

---------------------------------------------------------------------------
(* ChatHistoryManager: messages and their parts.  Contents are texts as    *)
(* above; the number of a message's place in the run is part of its        *)
(* content, so that the requests and answers of different turns differ.    *)

SystemPromptPart == [part_kind |-> "system-prompt", content |-> <<"s">>]

UserPromptPart(c) == [part_kind |-> "user-prompt", content |-> c]

ToolReturnPart(c) == [part_kind |-> "tool-return", content |-> c]

TextPart(c) == [part_kind |-> "text", content |-> c]

ToolCallPart(c) == [part_kind |-> "tool-call", content |-> c]

ModelRequest(parts) == [kind |-> "request", parts |-> parts]

ModelResponse(parts) == [kind |-> "response", parts |-> parts]

\* the kinds of message a run produces: U a request with the user prompt,
\* R a request with a tool return, A a response with one text, B a
\* response with a tool call and a blank text, D a response with two
\* texts, an empty text and a tool call
Shapes == {"U", "R", "A", "B", "D"}

Msg(shape, n) ==
    CASE shape = "U" ->
            ModelRequest(<<SystemPromptPart, UserPromptPart(<<"q">> \o Digits(n))>>)
      [] shape = "R" ->
            ModelRequest(<<ToolReturnPart(<<"r">> \o Digits(n))>>)
      [] shape = "A" ->
            ModelResponse(<<TextPart(<<"a">> \o Digits(n))>>)
      [] shape = "B" ->
            ModelResponse(<<ToolCallPart(<<"c">> \o Digits(n)), TextPart(<<" ">>)>>)
      [] shape = "D" ->
            ModelResponse(<<TextPart(<<"a">> \o Digits(n)),
                            TextPart(<<" ", "b">> \o Digits(n) \o <<" ">>),
                            TextPart(<<>>),
                            ToolCallPart(<<"c">> \o Digits(n))>>)

\* conversation ids
ChatIds == {1}

\* s[-k:] of a Python list
LastSlice(s, k) ==
    IF k = 0 THEN s
    ELSE IF k > 0
    THEN SubSeq(s, (IF Len(s) > k THEN Len(s) - k + 1 ELSE 1), Len(s))
    ELSE SubSeq(s, (IF Len(s) > -k THEN 1 - k ELSE Len(s) + 1), Len(s))

\* any(isinstance(message_part, UserPromptPart) for message_part in msg.parts)
HasUserPrompt(msg) ==
    \E j \in 1..Len(msg.parts) : msg.parts[j].part_kind = "user-prompt"

\* the loop of _split_into_turns from message i on
RECURSIVE SplitFrom(_, _, _, _)
SplitFrom(msgs, i, turns, current) ==
    IF i > Len(msgs)
    THEN IF current # <<>> THEN Append(turns, current) ELSE turns
    ELSE LET msg == msgs[i]
             starts == msg.kind = "request" /\ HasUserPrompt(msg)
         IN SplitFrom(msgs, i + 1,
                      IF starts /\ current # <<>> THEN Append(turns, current)
                      ELSE turns,
                      Append(IF starts THEN <<>> ELSE current, msg))

_split_into_turns(msgs) == SplitFrom(msgs, 1, <<>>, <<>>)

\* the result of _extract_answer: None, or the text found
None == [found |-> FALSE, content |-> <<>>]

\* for part in reversed(list(msg.parts)), from part j down
RECURSIVE LastTextOfParts(_, _)
LastTextOfParts(parts, j) ==
    IF j = 0 THEN None
    ELSE IF parts[j].part_kind = "text" /\ Strip(parts[j].content) # <<>>
    THEN [found |-> TRUE, content |-> parts[j].content]
    ELSE LastTextOfParts(parts, j - 1)

\* for msg in reversed(turn), from message i down
RECURSIVE ExtractFrom(_, _)
ExtractFrom(a_turn, i) ==
    IF i = 0 THEN None
    ELSE LET found == IF a_turn[i].kind = "response"
                      THEN LastTextOfParts(a_turn[i].parts, Len(a_turn[i].parts))
                      ELSE None
         IN IF found.found THEN found ELSE ExtractFrom(a_turn, i - 1)

\* an _extract_answer that returns the last non-empty text of the first
\* response that has one
_extract_answerFirst(a_turn) ==
    LET hits == {i \in 1..Len(a_turn) :
                    /\ a_turn[i].kind = "response"
                    /\ LastTextOfParts(a_turn[i].parts,
                                       Len(a_turn[i].parts)).found}
    IN IF hits = {} THEN None
       ELSE LET i == CHOOSE i \in hits : \A k \in hits : i <= k
            IN LastTextOfParts(a_turn[i].parts, Len(a_turn[i].parts))

_extract_answer(a_turn) == ExtractFrom(a_turn, Len(a_turn))

\* a _compress_turn that keeps the whole turn when it finds no answer
_compress_turnKeepFull(a_turn) ==
    LET answer == _extract_answer(a_turn)
    IN IF ~answer.found THEN a_turn
       ELSE <<a_turn[1], ModelResponse(<<TextPart(answer.content)>>)>>

_compress_turn(a_turn) ==
    LET answer == _extract_answer(a_turn)
    IN IF ~answer.found THEN <<>>
       ELSE <<a_turn[1], ModelResponse(<<TextPart(answer.content)>>)>>

\* compressed.extend(self._compress_turn(turn)) for the turns 1..k
RECURSIVE CompressTurns(_, _)
CompressTurns(turns, k) ==
    IF k = 0 THEN <<>>
    ELSE CompressTurns(turns, k - 1) \o _compress_turn(turns[k])

\* a _compress that trims a list longer than MAX_HISTORY to one record less
_compressTrimShort(msgs, max_history) ==
    IF msgs = <<>> THEN msgs
    ELSE LET turns == _split_into_turns(msgs)
         IN IF Len(turns) <= 1 THEN LastSlice(msgs, max_history)
            ELSE LET compressed == CompressTurns(turns, Len(turns) - 1)
                                   \o turns[Len(turns)]
                 IN IF Len(compressed) > max_history
                    THEN LastSlice(compressed, max_history - 1)
                    ELSE compressed

_compress(msgs, max_history) ==
    IF msgs = <<>> THEN msgs
    ELSE LET turns == _split_into_turns(msgs)
         IN IF Len(turns) <= 1 THEN LastSlice(msgs, max_history)
            ELSE LET compressed == CompressTurns(turns, Len(turns) - 1)
                                   \o turns[Len(turns)]
                 IN IF Len(compressed) > max_history
                    THEN LastSlice(compressed, max_history)
                    ELSE compressed

\* get(chat_id)
get(chat_id) ==
    IF chat_id \in DOMAIN _histories THEN _histories[chat_id] ELSE <<>>

\* the run adds a message to its list (result.all_messages()); the list is
\* complete when it is handed to update
AllMessagesAppend ==
    \E shape \in Shapes :
        /\ DOMAIN _histories = {}
        /\ Len(messages) < MaxMsgs
        /\ messages' = Append(messages, Msg(shape, Len(messages) + 1))
        /\ UNCHANGED <<storeVars, browserVars, builderVars, botVars, praetorVars, registryVars, historyVars, substVars,
                       MAX_HISTORY, _histories, transportVars>>

\* update(chat_id, messages); the model follows one update of a conversation
update ==
    \E chat_id \in ChatIds :
        /\ chat_id \notin DOMAIN _histories
        /\ _histories' = DictPut(_histories, chat_id,
                                 _compress(messages, MAX_HISTORY))
        /\ called' = [op |-> "update", chat_id |-> chat_id,
                      before |-> _histories]
        /\ UNCHANGED <<browserVars, builderVars, botVars, praetorVars, registryVars, historyVars, substVars,
                       MAX_HISTORY, messages, transportVars>>

\* any configured MAX_HISTORY from 0 to MaxHistoryCfg
HistoryInit == \E max_history \in 0..MaxHistoryCfg : InitWith(max_history)

HistoryNext == AllMessagesAppend \/ update

HistorySpec == HistoryInit /\ [][HistoryNext]_vars

\* update(chat_id, get(chat_id)): the stored history is handed to update
updateAgain ==
    \E chat_id \in ChatIds :
        /\ chat_id \in DOMAIN _histories
        /\ called.op = "update"
        /\ _histories' = DictPut(_histories, chat_id,
                                 _compress(get(chat_id), MAX_HISTORY))
        /\ called' = [op |-> "again", chat_id |-> chat_id,
                      before |-> _histories]
        /\ UNCHANGED <<MAX_HISTORY, messages>>
        /\ UNCHANGED <<browserVars, builderVars, botVars, praetorVars,
                       registryVars, historyVars, substVars, transportVars>>

AgainNext == AllMessagesAppend \/ update \/ updateAgain

AgainSpec == HistoryInit /\ [][AgainNext]_vars

---------------------------------------------------------------------------
(* ChatHistoryManager with several conversations: update and clear in any  *)
(* order, for any chat_id.                                                 *)

\* the conversation ids of the callers
StoreIds == {1, 2, 3}

\* the message lists handed to update: none, one turn, two turns
StoreLists ==
    {<<>>,
     <<Msg("U", 1), Msg("A", 2)>>,
     <<Msg("U", 1), Msg("R", 2), Msg("A", 3), Msg("U", 4), Msg("A", 5)>>}

\* dict.pop(key) without a default: KeyError when the key is absent
popNoDefault(d, key) ==
    [d |-> DictRemove(d, key), raised |-> key \notin DOMAIN d]

\* dict.pop(key, None): the dict without the key
pop(d, key) == [d |-> DictRemove(d, key), raised |-> FALSE]

\* update(chat_id, messages), lines 36-38
StoreUpdate ==
    \E chat_id \in StoreIds, msgs \in StoreLists :
        /\ messages' = msgs
        /\ _histories' = DictPut(_histories, chat_id,
                                 _compress(msgs, MAX_HISTORY))
        /\ called' = [op |-> "update", chat_id |-> chat_id,
                      before |-> _histories]
        /\ UNCHANGED MAX_HISTORY
        /\ UNCHANGED <<browserVars, builderVars, botVars, praetorVars,
                       registryVars, historyVars, substVars, transportVars>>

\* clear(chat_id), lines 40-42
clear ==
    \E chat_id \in StoreIds :
        /\ _histories' = pop(_histories, chat_id).d
        /\ called' = [op |-> IF pop(_histories, chat_id).raised
                             THEN "raised" ELSE "clear",
                      chat_id |-> chat_id,
                      before |-> _histories]
        /\ UNCHANGED <<MAX_HISTORY, messages>>
        /\ UNCHANGED <<browserVars, builderVars, botVars, praetorVars,
                       registryVars, historyVars, substVars, transportVars>>

StoreNext == StoreUpdate \/ clear

StoreSpec == HistoryInit /\ [][StoreNext]_vars

---------------------------------------------------------------------------
(* OllamaRetryTransport: JSON bodies.  A body is a text; json.loads and    *)
(* json.dumps are computed on texts.                                        *)

MAX_RETRIES == 3

JNull == [j |-> "null"]

JStr(str) == [j |-> "string", str |-> str]

JNum(num) == [j |-> "number", num |-> num]

JList(items) == [j |-> "array", items |-> items]

\* an object is the sequence of its members in insertion order
JObj(members) == [j |-> "object", members |-> members]

Member(key, value) == [key |-> key, value |-> value]

Quoted(str) == <<"\"">> \o str \o <<"\"">>

\* the item and key separators of json.dumps: compact, default
Compact == [item |-> <<",">>, key |-> <<":">>]

Spaced == [item |-> <<",", " ">>, key |-> <<":", " ">>]

\* json.dumps(value, separators=(sep.item, sep.key))
RECURSIVE Dumps(_, _)
RECURSIVE DumpItems(_, _, _)
RECURSIVE DumpMembers(_, _, _)
Dumps(value, sep) ==
    CASE value.j = "null" -> <<"n", "u", "l", "l">>
      [] value.j = "string" -> Quoted(value.str)
      [] value.j = "number" -> Digits(value.num)
      [] value.j = "array" -> <<"[">> \o DumpItems(value.items, 1, sep) \o <<"]">>
      [] value.j = "object" ->
            <<"{">> \o DumpMembers(value.members, 1, sep) \o <<"}">>

DumpItems(items, i, sep) ==
    IF i > Len(items) THEN <<>>
    ELSE (IF i > 1 THEN sep.item ELSE <<>>)
         \o Dumps(items[i], sep) \o DumpItems(items, i + 1, sep)

DumpMembers(members, i, sep) ==
    IF i > Len(members) THEN <<>>
    ELSE (IF i > 1 THEN sep.item ELSE <<>>)
         \o Quoted(members[i].key) \o sep.key
         \o Dumps(members[i].value, sep) \o DumpMembers(members, i + 1, sep)

\* texts of the keys and values used in bodies
K_messages == <<"m", "e", "s", "s", "a", "g", "e", "s">>

K_content == <<"c", "o", "n", "t", "e", "n", "t">>

K_role == <<"r", "o", "l", "e">>

K_model == <<"m", "o", "d", "e", "l">>

\* messages: with text content, with empty content (before and after
\* another field), with null content (before and after another field),
\* without content field
MsgText == JObj(<<Member(K_role, JStr(<<"u">>)), Member(K_content, JStr(<<"h", "i">>))>>)

MsgEmpty == JObj(<<Member(K_role, JStr(<<"a">>)), Member(K_content, JStr(<<>>))>>)

MsgEmptyFirst == JObj(<<Member(K_content, JStr(<<>>)), Member(K_role, JStr(<<"a">>))>>)

MsgNull == JObj(<<Member(K_role, JStr(<<"a">>)), Member(K_content, JNull)>>)

MsgNullFirst == JObj(<<Member(K_content, JNull), Member(K_role, JStr(<<"a">>))>>)

MsgNoContent == JObj(<<Member(K_role, JStr(<<"a">>))>>)

\* a body with the model field and the given messages value
Body(msgs) == JObj(<<Member(K_model, JStr(<<"m">>)), Member(K_messages, msgs)>>)

\* the message lists of the model: the lists of up to two messages
MessageObjects ==
    {MsgText, MsgEmpty, MsgEmptyFirst, MsgNull, MsgNullFirst, MsgNoContent}

MessageLists ==
    {<<>>} \cup {<<a>> : a \in MessageObjects}
           \cup {<<a, b>> : a \in MessageObjects, b \in MessageObjects}

\* the JSON values of the model's bodies: bodies with a messages list, with
\* a list that holds something that is no object, with messages that is no
\* list, without messages, and values that are no object
JsonValues ==
    {Body(JList(l)) : l \in MessageLists}
    \cup { Body(JList(<<MsgNull, JStr(<<"s">>)>>)),
           Body(JNull),
           Body(JObj(<<>>)),
           Body(JStr(<<"s">>)),
           JObj(<<Member(K_model, JStr(<<"m">>))>>),
           JList(<<>>),
           JList(<<JStr(K_messages)>>),
           JStr(K_messages),
           JNum(5),
           JNull }

\* bodies that are no JSON text
NotJson == {<<>>, <<"x">>, <<"{", "\"", "m">>}

\* the result of json.loads on a text that is no JSON
ParseError == [j |-> "error"]

\* json.loads(text): the value that the text is a serialisation of
json_loads(text) ==
    IF \E v \in JsonValues : \E sep \in {Compact, Spaced} : Dumps(v, sep) = text
    THEN CHOOSE v \in JsonValues :
             \E sep \in {Compact, Spaced} : Dumps(v, sep) = text
    ELSE ParseError

\* an httpx.Request with a body: httpx sets content-length from the body
Request(text) ==
    [method |-> "POST",
     url |-> "/v1/chat/completions",
     headers |-> [content_length |-> Digits(Len(text)),
                  content_type |-> "application/json"],
     content |-> text]

\* the requests handed to handle_async_request
Requests ==
    {Request(Dumps(v, sep)) : v \in JsonValues, sep \in {Compact, Spaced}}
    \cup {Request(text) : text \in NotJson}

\* 'messages' in body: "yes", "no", or "raise" for a TypeError
InBody(body) ==
    CASE body.j = "object" ->
            IF \E i \in 1..Len(body.members) : body.members[i].key = K_messages
            THEN "yes" ELSE "no"
      [] body.j = "array" ->
            IF \E i \in 1..Len(body.items) : body.items[i] = JStr(K_messages)
            THEN "yes" ELSE "no"
      [] body.j = "string" ->
            IF Contains(body.str, K_messages) THEN "yes" ELSE "no"
      [] OTHER -> "raise"

\* d[key] of an object that has the key
ValueOf(obj, key) ==
    obj.members[CHOOSE i \in 1..Len(obj.members) : obj.members[i].key = key].value

HasKey(obj, key) == \E i \in 1..Len(obj.members) : obj.members[i].key = key

\* msg.get('content') is None
ContentIsNone(msg) ==
    ~HasKey(msg, K_content) \/ ValueOf(msg, K_content) = JNull

\* msg['content'] = '': the value of the key is replaced where it stands, a
\* new key goes to the end
SetContentEmpty(msg) ==
    IF HasKey(msg, K_content)
    THEN JObj([i \in 1..Len(msg.members) |->
                 IF msg.members[i].key = K_content
                 THEN Member(K_content, JStr(<<>>))
                 ELSE msg.members[i]])
    ELSE JObj(Append(msg.members, Member(K_content, JStr(<<>>))))

\* the loop of _sanitize_request over a list of objects
SanitizeMessages(items) ==
    [i \in 1..Len(items) |->
        IF ContentIsNone(items[i]) THEN SetContentEmpty(items[i]) ELSE items[i]]

\* the body with body['messages'] replaced
WithMessages(body, msgs) ==
    JObj([i \in 1..Len(body.members) |->
            IF body.members[i].key = K_messages
            THEN Member(K_messages, msgs)
            ELSE body.members[i]])

fix_request(req, body) ==
    LET fixed == Dumps(body, Compact)
    IN [method |-> req.method,
        url |-> req.url,
        headers |-> [req.headers EXCEPT !.content_length = Digits(Len(fixed))],
        content |-> fixed]

\* _sanitize_request: every exception ends in "return request"
_sanitize_request(req) ==
    LET body == json_loads(req.content)
    IN IF body = ParseError THEN req
       ELSE IF InBody(body) # "yes" THEN req
       ELSE IF body.j # "object" THEN req
       ELSE LET msgs == ValueOf(body, K_messages)
            IN IF msgs.j # "array" THEN req
               ELSE IF \E i \in 1..Len(msgs.items) : msgs.items[i].j # "object"
               THEN req
               ELSE IF ~\E i \in 1..Len(msgs.items) : ContentIsNone(msgs.items[i])
               THEN req
               ELSE fix_request(req, WithMessages(body,
                                    JList(SanitizeMessages(msgs.items))))

\* status codes of the wrapped transport's responses
Statuses == {200, 429, 500, 502, 503, 504}

\* handle_async_request is entered: the request is sanitized (line 60) and
\* the loop starts
handle_async_request ==
    \E req \in Requests :
        /\ tpc = "idle"
        /\ request' = req
        /\ sanitized' = _sanitize_request(req)
        /\ attempt' = 1
        /\ tpc' = "send"
        /\ UNCHANGED <<storeVars, browserVars, builderVars, botVars, praetorVars, registryVars, historyVars, substVars,
                       chatVars, sent, responses, drained, returned>>

\* a loop that tries again after every status from 500 up
TransportRespondsRetry5xx ==
    \E status \in Statuses :
        /\ tpc = "send"
        /\ sent' = Append(sent, sanitized)
        /\ responses' = Append(responses, status)
        /\ IF status < 500 \/ attempt = MAX_RETRIES
           THEN tpc' = "returned" /\ returned' = status
           ELSE tpc' = "drain" /\ returned' = returned
        /\ UNCHANGED <<storeVars, browserVars, builderVars, botVars, praetorVars, registryVars, historyVars, substVars,
                       chatVars, request, sanitized, attempt, drained>>

\* the wrapped transport answers (line 62): the response is returned when
\* its status is not 500 or the attempt is the last, else it is to be drained
TransportResponds ==
    \E status \in Statuses :
        /\ tpc = "send"
        /\ sent' = Append(sent, sanitized)
        /\ responses' = Append(responses, status)
        /\ IF status # 500 \/ attempt = MAX_RETRIES
           THEN tpc' = "returned" /\ returned' = status
           ELSE tpc' = "drain" /\ returned' = returned
        /\ UNCHANGED <<storeVars, browserVars, builderVars, botVars, praetorVars, registryVars, historyVars, substVars,
                       chatVars, request, sanitized, attempt, drained>>

\* a loop that sends again after an exception of the wrapped transport
TransportRaisesRetry ==
    /\ tpc = "send"
    /\ sent' = Append(sent, sanitized)
    /\ IF attempt = MAX_RETRIES
       THEN tpc' = "raised" /\ attempt' = attempt
       ELSE tpc' = "send" /\ attempt' = attempt + 1
    /\ UNCHANGED <<storeVars, browserVars, builderVars, botVars, praetorVars, registryVars, historyVars, substVars,
                   chatVars, request, sanitized, responses, drained,
                   returned>>

\* the wrapped transport raises: the exception leaves handle_async_request
TransportRaises ==
    /\ tpc = "send"
    /\ sent' = Append(sent, sanitized)
    /\ tpc' = "raised"
    /\ UNCHANGED <<storeVars, browserVars, builderVars, botVars, praetorVars, registryVars, historyVars, substVars,
                   chatVars, request, sanitized, attempt, responses, drained,
                   returned>>

\* await response.aread() (line 65), then the next attempt
aread ==
    /\ tpc = "drain"
    /\ drained' = drained + 1
    /\ attempt' = attempt + 1
    /\ tpc' = "send"
    /\ UNCHANGED <<storeVars, browserVars, builderVars, botVars, praetorVars, registryVars, historyVars, substVars,
                   chatVars, request, sanitized, sent, responses, returned>>

\* reading the response to its end raises
areadRaises ==
    /\ tpc = "drain"
    /\ tpc' = "raised"
    /\ UNCHANGED <<storeVars, browserVars, builderVars, botVars, praetorVars, registryVars, historyVars, substVars,
                   chatVars, request, sanitized, attempt, sent, responses,
                   drained, returned>>

TransportNext ==
    \/ handle_async_request
    \/ TransportResponds
    \/ TransportRaises
    \/ aread
    \/ areadRaises

TransportSpec == Init /\ [][TransportNext]_vars

---------------------------------------------------------------------------
(* telegram_bot: the handlers of the dispatcher.  Every update is handled  *)
(* by one handler run; the runs interleave at their awaits.  llm is the    *)
(* one Praetor of the process (telegram_bot.py line 23).                   *)

Handlers == 1..MaxHandlers

\* message.chat.id of the updates
BotChatIds == {1, 2}

\* what regular_message tells apart: an update without text, a private
\* chat, a group message without the mention, a group message with it
MessageKinds == {"no_text", "private", "no_mention", "mention"}

\* result.output of the coordinator's run
RunOutputs ==
    {<<"A">>,
     <<"*", "*", "A", "*", "*", " ">>,
     <<"[", "S", "O", "U", "R", "C", "E", "_", "1", "]">>,
     <<"<", "t", "h", "i", "n", "k", ">", "x", "<", "/", "t", "h", "i", "n", "k", ">", "A">>}

\* a status text handed to update_chat by a stage
StatusText == <<"_", "R", "e", "s", "e", "a", "r", "c", "h", "i", "n", "g", ".", ".", ".", "_">>

ContextCleared == <<"C", "o", "n", "t", "e", "x", "t", " ", "c", "l", "e", "a", "r", "e", "d", ".">>

SorryPrivate == <<"S", "o", "r", "r", "y", ",", " ", "I", " ", "o", "n", "l", "y", " ", "w", "o", "r", "k", " ", "i", "n", " ", "g", "r", "o", "u", "p", " ", "c", "h", "a", "t", "s", " ", "t", "o", " ", "h", "e", "l", "p", " ", "r", "e", "d", "u", "c", "e", " ", "s", "p", "a", "m", ".">>

\* message.text with the mention removed: the handlers' texts differ
UserText(h) == <<"q">> \o Digits(h)

\* Praetor.get_history
get_history(chat_id) ==
    IF chat_id \in DOMAIN chat_histories THEN chat_histories[chat_id] ELSE <<>>

\* result.all_messages(): the history the run started from, then the
\* request with the user's prompt and the response with the output
all_messages(message_history, user_prompt, output) ==
    message_history \o <<ModelRequest(<<UserPromptPart(user_prompt)>>),
                         ModelResponse(<<TextPart(output)>>)>>

\* update h arrives: the runs are numbered in the order of their updates
Arrives(h) ==
    /\ handler[h].pc = "waiting"
    /\ h > 1 => handler[h - 1].pc # "waiting"

\* regular_message up to the first await inside Agent.run: the updates that
\* are ignored or refused return here; for a mention handle_query is
\* entered and the stored history is read as the argument of Agent.run
regular_message(h) ==
    \E kind \in MessageKinds, c \in BotChatIds :
        /\ Arrives(h)
        /\ handler' = [handler EXCEPT ![h] =
               [pc |-> IF kind = "mention" THEN "run" ELSE "returned",
                kind |-> kind,
                chat_id |-> c,
                message_history |-> IF kind = "mention" THEN get_history(c)
                                    ELSE <<>>,
                final_response |-> <<>>]]
        /\ replies' = [replies EXCEPT ![h] =
               IF kind = "private" THEN Append(@, SorryPrivate) ELSE @]
        /\ UNCHANGED <<chat_histories, delivered>>
        /\ UNCHANGED <<storeVars, browserVars, builderVars, praetorVars, registryVars, historyVars, substVars,
                       chatVars, transportVars>>

\* update_callback called by a stage of the run with a status text
update_callback(h) ==
    /\ handler[h].pc = "run"
    /\ Len(delivered[h]) < MaxStatus
    /\ delivered' = [delivered EXCEPT ![h] =
           Append(@, [final |-> FALSE, text |-> StatusText])]
    /\ UNCHANGED <<chat_histories, handler, replies>>
    /\ UNCHANGED <<storeVars, browserVars, builderVars, praetorVars, registryVars, historyVars, substVars,
                   chatVars, transportVars>>

\* Agent.run returns (ai.py lines 257-263): the history of the conversation
\* is replaced by the messages of the run and the final text is computed
AgentRunReturns(h) ==
    \E output \in RunOutputs :
        /\ handler[h].pc = "run"
        /\ chat_histories' = DictPut(chat_histories, handler[h].chat_id,
               all_messages(handler[h].message_history, UserText(h), output))
        /\ handler' = [handler EXCEPT
               ![h].pc = "deliver",
               ![h].final_response =
                   Strip(Replace(output, <<"*", "*">>, <<"*">>))]
        /\ UNCHANGED <<delivered, replies>>
        /\ UNCHANGED <<storeVars, browserVars, builderVars, praetorVars, registryVars, historyVars, substVars,
                       chatVars, transportVars>>

\* await update_chat(final_response) (ai.py line 264), then the handler ends
DeliverFinal(h) ==
    /\ handler[h].pc = "deliver"
    /\ delivered' = [delivered EXCEPT ![h] =
           Append(@, [final |-> TRUE, text |-> handler[h].final_response])]
    /\ handler' = [handler EXCEPT ![h].pc = "returned"]
    /\ UNCHANGED <<chat_histories, replies>>
    /\ UNCHANGED <<storeVars, browserVars, builderVars, praetorVars, registryVars, historyVars, substVars,
                   chatVars, transportVars>>

\* Agent.run raises (a model request or a stage fails): handle_query has no
\* handler for it, the exception leaves handle_query and regular_message
AgentRunRaises(h) ==
    /\ handler[h].pc = "run"
    /\ handler' = [handler EXCEPT ![h].pc = "raised"]
    /\ UNCHANGED <<chat_histories, delivered, replies>>
    /\ UNCHANGED <<storeVars, browserVars, builderVars, praetorVars, registryVars, historyVars, substVars,
                   chatVars, transportVars>>

\* clear_context: Praetor (ai.py lines 147-264) defines no attribute clear,
\* so llm.clear raises AttributeError before anything is changed or replied
clear_context(h) ==
    \E c \in BotChatIds :
        /\ Arrives(h)
        /\ handler' = [handler EXCEPT ![h] =
               [pc |-> "raised", kind |-> "clear", chat_id |-> c,
                message_history |-> <<>>, final_response |-> <<>>]]
        /\ UNCHANGED <<chat_histories, delivered, replies>>
        /\ UNCHANGED <<storeVars, browserVars, builderVars, praetorVars, registryVars, historyVars, substVars,
                       chatVars, transportVars>>

BotNext ==
    \E h \in Handlers :
        \/ regular_message(h)
        \/ update_callback(h)
        \/ AgentRunReturns(h)
        \/ DeliverFinal(h)
        \/ AgentRunRaises(h)
        \/ clear_context(h)

BotSpec == Init /\ [][BotNext]_vars

---------------------------------------------------------------------------
(* SourceDataBuilder: the source text of a research pass.  A registry is   *)
(* the record [srcs, u2t, n] of its entries, its url index and its counter *)

\* Python values of tool returns: None, a str, a list, a model object with
\* its attributes (an attribute the class lacks reads as '' through getattr)
PyNone == [py |-> "None"]

PyStr(str) == [py |-> "str", str |-> str]

PyList(items) == [py |-> "list", items |-> items]

PyObject(source_url, title, body, summary, text, source, source_name,
         author_handle, str) ==
    [py |-> "object", source_url |-> source_url, title |-> title,
     body |-> body, summary |-> summary, text |-> text, source |-> source,
     source_name |-> source_name, author_handle |-> author_handle,
     str |-> str]

\* a ToolReturnPart with the name of its tool
ToolReturn(tool_name, content) ==
    [part_kind |-> "tool-return", tool_name |-> tool_name, content |-> content]

INTERMEDIATE_TOOLS ==
    {<<"l", "i", "s", "t", "_", "g", "o", "v", "_", "r", "s", "s", "_", "f", "e", "e", "d", "s">>,
     <<"l", "i", "s", "t", "_", "u", "s", "_", "n", "e", "w", "s", "_", "r", "s", "s", "_", "f", "e", "e", "d", "s">>,
     <<"l", "i", "s", "t", "_", "w", "o", "r", "l", "d", "_", "n", "e", "w", "s", "_", "r", "s", "s", "_", "f", "e", "e", "d", "s">>}

\* the length of the excerpt, [:200]
EXCERPT_CHARS == 200

\* a or b or c on strings
Or3(a, b, c) == IF a # <<>> THEN a ELSE IF b # <<>> THEN b ELSE c

\* t[:n]
Prefix(t, n) == IF Len(t) <= n THEN t ELSE SubSeq(t, 1, n)

\* sep.join(texts)
RECURSIVE Join(_, _)
Join(sep, texts) ==
    IF texts = <<>> THEN <<>>
    ELSE IF Len(texts) = 1 THEN texts[1]
    ELSE texts[1] \o sep \o Join(sep, Tail(texts))

\* isinstance(item, Sourceable): the object has a source_url
IsSourceable(item) == item.py = "object"

\* _extract_tool_parts: the tool returns of the requests, those of the
\* intermediate tools and those without content left out
RECURSIVE PartsOf(_, _)
PartsOf(parts, j) ==
    IF j > Len(parts) THEN <<>>
    ELSE (IF /\ parts[j].part_kind = "tool-return"
             /\ parts[j].content # PyNone
             /\ parts[j].tool_name \notin INTERMEDIATE_TOOLS
          THEN <<parts[j]>> ELSE <<>>) \o PartsOf(parts, j + 1)

RECURSIVE ExtractPartsFrom(_, _)
ExtractPartsFrom(msgs, i) ==
    IF i > Len(msgs) THEN <<>>
    ELSE (IF msgs[i].kind = "request" THEN PartsOf(msgs[i].parts, 1)
          ELSE <<>>) \o ExtractPartsFrom(msgs, i + 1)

_extract_tool_parts(msgs) == ExtractPartsFrom(msgs, 1)

\* _normalize_content
_normalize_content(content) ==
    IF content.py = "list" THEN content.items ELSE <<content>>

\* line 263 and the registry after the register call r
ItemLine(item, source_name, summary, r) ==
    [line |-> [found |-> TRUE,
               content |-> <<"-", " ">> \o r.ret \o <<" ">>
                           \o item.title
                           \o <<" ", "[", "v", "i", "a", " ">>
                           \o source_name \o <<"]", ":", " ">>
                           \o summary],
     reg |-> [srcs |-> r.srcs, u2t |-> r.u2t, n |-> r.n]]

\* _format_sourceable_item: the line of the item, or None, and the registry
\* after the call
_format_sourceable_item(item, reg) ==
    IF ~IsSourceable(item) \/ item.source_url = <<>>
    THEN [line |-> None, reg |-> reg]
    ELSE ItemLine(item,
                  Or3(item.source, item.source_name, item.author_handle),
                  Prefix(Or3(item.body, item.summary, item.text),
                         EXCERPT_CHARS),
                  register(reg.srcs, reg.u2t, reg.n, item.source_url,
                           IF item.title # <<>> THEN item.title
                           ELSE DefaultTitle,
                           Or3(item.source, item.source_name,
                               item.author_handle)))

\* lines 296-301: the line appended for an item formatted as f, before the
\* lines of the items after it
LinesWith(item, f, rest) ==
    [lines |-> (IF f.line # None /\ f.line.content # <<>>
                THEN <<f.line.content>>
                ELSE IF item # PyNone
                THEN <<(<<"-", " ">> \o item.str)>>
                ELSE <<>>) \o rest.lines,
     reg |-> rest.reg]

\* the loop of _format_section from item i on: the lines appended and the
\* registry at the end
RECURSIVE SectionLines(_, _, _)

LinesFrom(items, i, f) ==
    LinesWith(items[i], f, SectionLines(items, i + 1, f.reg))

SectionLines(items, i, reg) ==
    IF i > Len(items) THEN [lines |-> <<>>, reg |-> reg]
    ELSE LinesFrom(items, i, _format_sourceable_item(items[i], reg))

\* line 304 without the rule that a section needs a line
SectionAlwaysOf(tool_name, r) ==
    [section |-> [found |-> TRUE,
                  content |-> Join(<<"\n">>,
                      <<(<<"[">> \o tool_name \o <<"]", ":">>)>>
                      \o r.lines)],
     reg |-> r.reg]

\* lines 290 and 304: the header and the lines r, or None without lines
SectionOf(tool_name, r) ==
    [section |-> IF r.lines # <<>>
                 THEN [found |-> TRUE,
                       content |-> Join(<<"\n">>,
                           <<(<<"[">> \o tool_name \o <<"]", ":">>)>>
                           \o r.lines)]
                 ELSE None,
     reg |-> r.reg]

\* _format_section without the rule that a section needs a line
_format_sectionAlways(tool_name, content, reg) ==
    SectionAlwaysOf(tool_name,
                    SectionLines(_normalize_content(content), 1, reg))

\* _format_section (filter_text is None): the section or None, and the
\* registry at the end
_format_section(tool_name, content, reg) ==
    SectionOf(tool_name, SectionLines(_normalize_content(content), 1, reg))

\* lines 212-213: the section s is kept when it is not None
CollectWith(s, rest) ==
    [sections |-> (IF s.section # None /\ s.section.content # <<>>
                   THEN <<s.section.content>> ELSE <<>>)
                  \o rest.sections,
     reg |-> rest.reg]

\* _collect_sections from part i on
RECURSIVE _collect_sections(_, _, _)

CollectFrom(tool_parts, i, s) ==
    CollectWith(s, _collect_sections(tool_parts, i + 1, s.reg))

_collect_sections(tool_parts, i, reg) ==
    IF i > Len(tool_parts) THEN [sections |-> <<>>, reg |-> reg]
    ELSE CollectFrom(tool_parts, i,
                     _format_section(tool_parts[i].tool_name,
                                     tool_parts[i].content, reg))

SourceDataHeader ==
    <<"S", "o", "u", "r", "c", "e", " ", "D", "a", "t", "a", " ", "(", "u", "s", "e", " ", "[", "S", "O", "U", "R", "C", "E", "_", "N", "]", " ", "t", "a", "g", "s", " ", "t", "o", " ", "c", "i", "t", "e", ")", ":", "\n">>

_build_source_text(sections) ==
    SourceDataHeader \o Join(<<"\n", "\n">>, sections)

\* lines 197-200: the text of the sections c
BuildOf(c) ==
    [text |-> IF c.sections = <<>> THEN <<>>
              ELSE _build_source_text(c.sections),
     reg |-> c.reg]

\* build: the source text and the registry
build(msgs, reg) == BuildOf(_collect_sections(_extract_tool_parts(msgs), 1, reg))

\* a fresh SourceRegistry
EmptyRegistry == [srcs |-> <<>>, u2t |-> [u \in {} |-> <<>>], n |-> 0]

\* a body longer than the excerpt
LongBody == [i \in 1..(EXCERPT_CHARS + 1) |-> "b"]

\* a FetchedPage (url, title, body), an RSSFeedItem without title (link,
\* summary, source_name), a BlueskyPost (text, author_handle)
FetchedPage(url, body) ==
    PyObject(url, <<"T">>, body, <<>>, <<>>, <<>>, <<>>, <<>>, <<"P">>)

RSSFeedItem(link) ==
    PyObject(link, <<>>, <<>>, <<"s">>, <<>>, <<>>, <<"N">>, <<>>, <<"F">>)

BlueskyPost(url) ==
    PyObject(url, <<>>, <<>>, <<>>, <<"p">>, <<>>, <<>>, <<"M">>, <<"B">>)

\* the items of the model's tool returns
BuildItems ==
    {FetchedPage(<<"u">>, LongBody), RSSFeedItem(<<"u">>),
     BlueskyPost(<<" ", "u", " ">>),
     FetchedPage(<<" ">>, <<"b">>), FetchedPage(<<>>, <<"b">>),
     PyStr(<<"x">>), PyNone}
    \cup {FetchedPage(url, <<"b">>) : url \in Urls \ {<<"u">>}}

\* content of a tool return: one item (None included) or a list
BuildContents ==
    BuildItems \cup {PyList(<<>>)} \cup {PyList(<<a>>) : a \in BuildItems}
    \cup {PyList(<<a, b>>) : a, b \in BuildItems}

search_web == <<"s", "e", "a", "r", "c", "h", "_", "w", "e", "b">>

fetch_url == <<"f", "e", "t", "c", "h", "_", "u", "r", "l">>

list_gov_rss_feeds == <<"l", "i", "s", "t", "_", "g", "o", "v", "_", "r", "s", "s", "_", "f", "e", "e", "d", "s">>

BuildTools == {search_web, list_gov_rss_feeds}

\* the message lists handed to build: one tool return, and runs with
\* several requests and responses
BuildInputs ==
    {<<ModelRequest(<<ToolReturn(t, c)>>)>> : t \in BuildTools,
                                              c \in BuildContents}
    \cup {<<ModelRequest(<<SystemPromptPart, UserPromptPart(<<"q">>)>>),
            ModelResponse(<<ToolCallPart(<<"c">>)>>),
            ModelRequest(<<ToolReturn(list_gov_rss_feeds, PyStr(<<"x">>)),
                           ToolReturn(search_web, c)>>),
            ModelResponse(<<ToolCallPart(<<"c">>)>>),
            ModelRequest(<<ToolReturn(fetch_url, d)>>),
            ModelResponse(<<TextPart(<<"a">>)>>)>> :
          c \in {PyList(<<>>), PyList(<<FetchedPage(<<"v">>, <<"b">>),
                                        RSSFeedItem(<<"u">>)>>)},
          d \in {PyNone, FetchedPage(<<"u">>, LongBody),
                 FetchedPage(<<"v">>, <<"b">>),
                 FetchedPage(<<"w">>, <<"b">>)}}

\* the registry of the conversation
Registry == [srcs |-> sources, u2t |-> url_to_tag, n |-> counter]

\* build returns r: the caller keeps the text and the registry
BuildReturns(msgs, registry, reg, r) ==
    /\ built.pc \in {"none", "first"}
    /\ built' = [pc |-> IF built.pc = "none" THEN "first" ELSE "again",
                 messages |-> msgs,
                 registry |-> registry,
                 before |-> reg,
                 text |-> r.text]
    /\ sources' = r.reg.srcs
    /\ url_to_tag' = r.reg.u2t
    /\ counter' = r.reg.n
    /\ UNCHANGED <<storeVars, browserVars, botVars, praetorVars, historyVars,
                   substVars, chatVars, transportVars>>

BuildCall(msgs, registry, reg) ==
    BuildReturns(msgs, registry, reg, build(msgs, reg))

\* build(messages, registry): with registry None a fresh registry is made
\* and returned; the caller keeps the registry build returns
Build ==
    \E msgs \in BuildInputs, registry \in {"None", "given"} :
        BuildCall(msgs, registry,
                  IF registry = "None" THEN EmptyRegistry ELSE Registry)

BuildNext == Build

BuildSpec == Init /\ [][BuildNext]_vars

---------------------------------------------------------------------------
(* BrowserManager of src/src/tools/fetch_url.py.  fetch, close and
   _idle_watchdog are coroutines of one event loop: a step of the model is
   what a task does between two suspensions.  The awaits on Playwright
   (start, launch, the page calls, Browser.close, stop) suspend the task;
   new_page, goto, content and page.close leave the manager alone and are
   one step.  Time passes in steps of CHECK_INTERVAL. *)

Fetchers == 1..MaxFetchers

Launches == 1..MaxLaunches

\* Task.cancel() of close, line 72: a request a finished task ignores
Cancel(wd, w) ==
    IF w # NoObject /\ wd[w].pc \in {"sleeping", "closing_browser", "stopping"}
    THEN [wd EXCEPT ![w].cancel = TRUE]
    ELSE wd

\* where close, entered with lines 71-73 done, suspends first
AfterCancel ==
    IF _browser # NoObject THEN "closing_browser"
    ELSE IF _playwright # NoObject THEN "stopping"
    ELSE "closed"

\* the object of the call close suspends in
Closing == IF _browser # NoObject THEN _browser ELSE _playwright

\* fetch, line 58, and _get_browser up to its first suspension: a browser
\* that is there is reused, else Playwright is started
FetchCalled(f) ==
    /\ fetcher[f].pc = "idle"
    /\ IF _browser = NoObject
       THEN /\ launches + Cardinality({g \in Fetchers :
                                          fetcher[g].pc = "starting"})
                   < MaxLaunches
            /\ fetcher' = [fetcher EXCEPT ![f] =
                               [NoFetch EXCEPT !.pc = "starting"]]
            /\ idle' = idle
       ELSE /\ fetcher' = [fetcher EXCEPT ![f] =
                               [NoFetch EXCEPT !.pc = "render",
                                               !.browser = _browser]]
            /\ idle' = 0
    /\ UNCHANGED <<_playwright, _browser, _idle_task, watchdog, chromium,
                   drivers, launches>>
    /\ UNCHANGED <<storeVars, builderVars, botVars, praetorVars, registryVars,
                   historyVars, substVars, chatVars, transportVars>>

\* the except branch of fetch, lines 64-66, and close up to its first
\* suspension; with nothing to close, fetch returns None (line 67)
ExceptClose(f) ==
    /\ _idle_task' = NoObject
    /\ watchdog' = Cancel(watchdog, _idle_task)
    /\ fetcher' = [fetcher EXCEPT ![f] =
                       IF AfterCancel = "closed"
                       THEN [NoFetch EXCEPT !.result = "None"]
                       ELSE [NoFetch EXCEPT !.pc = AfterCancel,
                                            !.closing = Closing]]
    /\ UNCHANGED <<_playwright, _browser, idle, chromium, drivers, launches>>

\* _get_browser, line 36: async_playwright().start() returns
StartReturns(f) ==
    /\ fetcher[f].pc = "starting"
    /\ launches' = launches + 1
    /\ _playwright' = launches + 1
    /\ drivers' = drivers \cup {launches + 1}
    /\ fetcher' = [fetcher EXCEPT ![f].pc = "launching",
                                  ![f].browser = launches + 1]
    /\ UNCHANGED <<_browser, _idle_task, idle, watchdog, chromium>>
    /\ UNCHANGED <<storeVars, builderVars, botVars, praetorVars, registryVars,
                   historyVars, substVars, chatVars, transportVars>>

\* _get_browser, line 36: start raises
StartRaises(f) ==
    /\ fetcher[f].pc = "starting"
    /\ ExceptClose(f)
    /\ UNCHANGED <<storeVars, builderVars, botVars, praetorVars, registryVars,
                   historyVars, substVars, chatVars, transportVars>>

\* _get_browser, lines 37-41: launch returns, the watchdog task is created
LaunchReturns(f) ==
    /\ fetcher[f].pc = "launching"
    /\ _browser' = fetcher[f].browser
    /\ chromium' = chromium \cup {fetcher[f].browser}
    /\ _idle_task' = fetcher[f].browser
    /\ watchdog' = [watchdog EXCEPT ![fetcher[f].browser] =
                        [NoWatchdog EXCEPT !.pc = "sleeping"]]
    /\ idle' = 0
    /\ fetcher' = [fetcher EXCEPT ![f].pc = "render"]
    /\ UNCHANGED <<_playwright, drivers, launches>>
    /\ UNCHANGED <<storeVars, builderVars, botVars, praetorVars, registryVars,
                   historyVars, substVars, chatVars, transportVars>>

\* _get_browser, line 37: launch raises
LaunchRaises(f) ==
    /\ fetcher[f].pc = "launching"
    /\ ExceptClose(f)
    /\ UNCHANGED <<storeVars, builderVars, botVars, praetorVars, registryVars,
                   historyVars, substVars, chatVars, transportVars>>

\* fetch, lines 59-63: the page is rendered by a browser that is open
RenderReturns(f) ==
    /\ fetcher[f].pc = "render"
    /\ fetcher[f].browser \in chromium
    /\ fetcher' = [fetcher EXCEPT ![f] =
                       [NoFetch EXCEPT !.result = "html"]]
    /\ UNCHANGED <<_playwright, _browser, _idle_task, idle, watchdog,
                   chromium, drivers, launches>>
    /\ UNCHANGED <<storeVars, builderVars, botVars, praetorVars, registryVars,
                   historyVars, substVars, chatVars, transportVars>>

\* fetch, lines 59-62: one of the page calls raises
RenderRaises(f) ==
    /\ fetcher[f].pc = "render"
    /\ ExceptClose(f)
    /\ UNCHANGED <<storeVars, builderVars, botVars, praetorVars, registryVars,
                   historyVars, substVars, chatVars, transportVars>>

\* close, lines 75-80, in fetch: Browser.close returns; with no Playwright
\* handle close returns and fetch returns None
BrowserCloseReturns(f) ==
    /\ fetcher[f].pc = "closing_browser"
    /\ chromium' = chromium \ {fetcher[f].closing}
    /\ _browser' = NoObject
    /\ fetcher' = [fetcher EXCEPT ![f] =
                       IF _playwright # NoObject
                       THEN [NoFetch EXCEPT !.pc = "stopping",
                                            !.closing = _playwright]
                       ELSE [NoFetch EXCEPT !.result = "None"]]
    /\ UNCHANGED <<_playwright, _idle_task, idle, watchdog, drivers,
                   launches>>
    /\ UNCHANGED <<storeVars, builderVars, botVars, praetorVars, registryVars,
                   historyVars, substVars, chatVars, transportVars>>

\* close, lines 79-80, in fetch: stop returns, fetch returns None
StopReturns(f) ==
    /\ fetcher[f].pc = "stopping"
    /\ drivers' = drivers \ {fetcher[f].closing}
    /\ _playwright' = NoObject
    /\ fetcher' = [fetcher EXCEPT ![f] = [NoFetch EXCEPT !.result = "None"]]
    /\ UNCHANGED <<_browser, _idle_task, idle, watchdog, chromium, launches>>
    /\ UNCHANGED <<storeVars, builderVars, botVars, praetorVars, registryVars,
                   historyVars, substVars, chatVars, transportVars>>

\* CHECK_INTERVAL seconds pass: the sleeps of line 46 are over
Tick ==
    /\ idle' = IF idle + CHECK_INTERVAL < IDLE_TIMEOUT
               THEN idle + CHECK_INTERVAL ELSE IDLE_TIMEOUT
    /\ watchdog' = [w \in Launches |->
                        IF watchdog[w].pc = "sleeping"
                        THEN [watchdog[w] EXCEPT !.due = TRUE]
                        ELSE watchdog[w]]
    /\ \/ idle' # idle
       \/ watchdog' # watchdog
    /\ UNCHANGED <<_playwright, _browser, _idle_task, fetcher, chromium,
                   drivers, launches>>
    /\ UNCHANGED <<storeVars, builderVars, botVars, praetorVars, registryVars,
                   historyVars, substVars, chatVars, transportVars>>

\* _idle_watchdog, lines 46-53: the sleep is over; an idle browser is closed
\* with close, followed here up to its first suspension
WatchdogWakes(w) ==
    /\ watchdog[w].pc = "sleeping"
    /\ watchdog[w].due
    /\ ~watchdog[w].cancel
    /\ IF _browser = NoObject
       THEN /\ watchdog' = [watchdog EXCEPT ![w] =
                                [NoWatchdog EXCEPT !.pc = "done"]]
            /\ UNCHANGED _idle_task
       ELSE IF idle >= IDLE_TIMEOUT
       THEN /\ _idle_task' = NoObject
            /\ watchdog' =
                   Cancel([watchdog EXCEPT ![w].pc = AfterCancel,
                                           ![w].due = FALSE,
                                           ![w].closing = Closing],
                          _idle_task)
       ELSE /\ watchdog' = [watchdog EXCEPT ![w].due = FALSE]
            /\ UNCHANGED _idle_task
    /\ UNCHANGED <<_playwright, _browser, idle, fetcher, chromium, drivers,
                   launches>>
    /\ UNCHANGED <<storeVars, builderVars, botVars, praetorVars, registryVars,
                   historyVars, substVars, chatVars, transportVars>>

\* a cancelled watchdog gets CancelledError at the await it is suspended
\* in and ends; a Browser.close that was under way has closed Chromium
\* or has not
CancelledError(w) ==
    /\ watchdog[w].pc \in {"sleeping", "closing_browser", "stopping"}
    /\ watchdog[w].cancel
    /\ watchdog' = [watchdog EXCEPT ![w] =
                        [NoWatchdog EXCEPT !.pc = "cancelled"]]
    /\ \/ UNCHANGED chromium
       \/ /\ watchdog[w].pc = "closing_browser"
          /\ watchdog[w].closing \in chromium
          /\ chromium' = chromium \ {watchdog[w].closing}
    /\ UNCHANGED <<_playwright, _browser, _idle_task, idle, fetcher, drivers,
                   launches>>
    /\ UNCHANGED <<storeVars, builderVars, botVars, praetorVars, registryVars,
                   historyVars, substVars, chatVars, transportVars>>

\* close, lines 75-78, in the watchdog: Browser.close returns
WatchdogBrowserCloseReturns(w) ==
    /\ watchdog[w].pc = "closing_browser"
    /\ ~watchdog[w].cancel
    /\ chromium' = chromium \ {watchdog[w].closing}
    /\ _browser' = NoObject
    /\ watchdog' = [watchdog EXCEPT ![w] =
                        IF _playwright # NoObject
                        THEN [watchdog[w] EXCEPT !.pc = "stopping",
                                                 !.closing = _playwright]
                        ELSE [NoWatchdog EXCEPT !.pc = "done"]]
    /\ UNCHANGED <<_playwright, _idle_task, idle, fetcher, drivers, launches>>
    /\ UNCHANGED <<storeVars, builderVars, botVars, praetorVars, registryVars,
                   historyVars, substVars, chatVars, transportVars>>

\* close, lines 79-80, in the watchdog: stop returns, the task ends
WatchdogStopReturns(w) ==
    /\ watchdog[w].pc = "stopping"
    /\ ~watchdog[w].cancel
    /\ drivers' = drivers \ {watchdog[w].closing}
    /\ _playwright' = NoObject
    /\ watchdog' = [watchdog EXCEPT ![w] = [NoWatchdog EXCEPT !.pc = "done"]]
    /\ UNCHANGED <<_browser, _idle_task, idle, fetcher, chromium, launches>>
    /\ UNCHANGED <<storeVars, builderVars, botVars, praetorVars, registryVars,
                   historyVars, substVars, chatVars, transportVars>>

\* what a call of fetch does once it has been made
FetchRuns(f) ==
    \/ StartReturns(f)
    \/ StartRaises(f)
    \/ LaunchReturns(f)
    \/ LaunchRaises(f)
    \/ RenderReturns(f)
    \/ RenderRaises(f)
    \/ BrowserCloseReturns(f)
    \/ StopReturns(f)

_idle_watchdog(w) ==
    \/ WatchdogWakes(w)
    \/ CancelledError(w)
    \/ WatchdogBrowserCloseReturns(w)
    \/ WatchdogStopReturns(w)

BrowserNext ==
    \/ \E f \in Fetchers : FetchCalled(f) \/ FetchRuns(f)
    \/ \E w \in Launches : _idle_watchdog(w)
    \/ Tick

BrowserSpec == Init /\ [][BrowserNext]_vars

\* the event loop runs every task that can run, and time passes
BrowserFairSpec ==
    /\ BrowserSpec
    /\ WF_vars(Tick)
    /\ \A f \in Fetchers : WF_vars(FetchRuns(f))
    /\ \A w \in Launches : WF_vars(_idle_watchdog(w))

---------------------------------------------------------------------------
(* Properties of SourceRegistry *)

\* the number n of a tag "[SOURCE_n]"
TagNum(tag) ==
    IF \E n \in 1..(MaxIssued + 1) : TagStr(n) = tag
    THEN CHOOSE n \in 1..(MaxIssued + 1) : TagStr(n) = tag
    ELSE 0

\* all but the last element
Front(s) == SubSeq(s, 1, Len(s) - 1)

\* the live entry whose tag is "[" name "]", for a mention name = SOURCE_n
IsLiveName(srcs, name) ==
    \E i \in 1..Len(srcs) : srcs[i].tag = <<"[">> \o name \o <<"]">>

EntryOfName(srcs, name) ==
    srcs[CHOOSE i \in 1..Len(srcs) : srcs[i].tag = <<"[">> \o name \o <<"]">>]

\* every SOURCE_n mentioned in the text is live
MentionsLive(srcs, t) ==
    \A k \in 1..Len(FindAllTags(t, 1)) : IsLiveName(srcs, FindAllTags(t, 1)[k])

\* the links of the named entries, separated by single spaces
RECURSIVE JoinLinks(_, _)
JoinLinks(srcs, names) ==
    IF names = <<>> THEN <<>>
    ELSE IF Len(names) = 1 THEN Link(EntryOfName(srcs, names[1]))
    ELSE Link(EntryOfName(srcs, names[1])) \o <<" ">>
         \o JoinLinks(srcs, Tail(names))

\* C3: the output of substitute contains no bracketed tag syntax
\* [SOURCE_<word characters>], whatever the registry and the text.
C3_NoTagSyntaxInOutput == subOut # NoText => ~HasTagSyntax(subOut)

\* C4: the numbers of the tags issued by register are strictly increasing in
\* issue order, so no number is issued twice, also after evictions.
C4_TagsStrictlyIncreasing ==
    \A i, j \in 1..Len(issued) :
        i < j => (TagNum(issued[i]) > 0 /\ TagNum(issued[i]) < TagNum(issued[j]))

\* C4 witness: more tags were issued than the registry holds (an eviction
\* took place) and the last call was a dedup hit on an older entry.
C4_Witness ==
    /\ Len(issued) > MAX_SIZE
    /\ ret # <<>>
    /\ ret # issued[Len(issued)]

\* C5 as stated: a register call with a url that an earlier call registered
\* returns the tag of that earlier call and does not add a live entry.
C5_SameTagAsEarlier ==
    [][(regUrl' # <<>> /\ lastTag[regUrl'] # <<>>)
        => (ret' = lastTag[regUrl'] /\ Len(sources') <= Len(sources))]_vars

\* C5 amended: a register call with a url that is live in the registry
\* (registered earlier and not evicted since) returns the tag of that earlier
\* call and leaves the number of live entries as it was.
C5_SameTagWhileLive ==
    [][(regUrl' # <<>> /\ regUrl' \in DOMAIN url_to_tag)
        => (/\ lastTag[regUrl'] # <<>>
            /\ ret' = lastTag[regUrl']
            /\ Len(sources') = Len(sources))]_vars

\* C5 witness: the last call was a dedup hit on an entry that is not the
\* most recently issued one.
C5_Witness ==
    /\ Len(issued) >= 2
    /\ regUrl \in DOMAIN url_to_tag
    /\ ret = url_to_tag[regUrl]
    /\ ret # issued[Len(issued)]

\* C6: after MAX_SIZE + 1 distinct urls were registered in an empty registry
\* exactly the first entry is gone and the other MAX_SIZE entries are live;
\* substitute on a text containing the evicted tag removes that tag.
C6_FifoEvictionStripsTag ==
    /\ counter <= MAX_SIZE => Len(sources) = counter
    /\ counter = MAX_SIZE + 1 =>
        /\ Len(sources) = MAX_SIZE
        /\ \A i \in 1..Len(sources) : sources[i].tag = TagStr(i + 1)
    /\ (subOut # NoText /\ counter >= MAX_SIZE + 1 /\ Contains(subIn, TagStr(1)))
        => ~Contains(subOut, TagStr(1))

\* C7: the registry never holds more than MAX_SIZE entries, and a register
\* call drops at most one entry, the oldest one, and only when it is full.
C7_BoundedFifo ==
    /\ [](Len(sources) <= MAX_SIZE)
    /\ [][sources' # sources
           => /\ Len(sources') > 0
              /\ \/ Front(sources') = sources
                 \/ /\ Len(sources) = MAX_SIZE
                    /\ Front(sources') = Tail(sources)]_vars

\* C7 witness: the registry is full after an eviction.
C7_Witness ==
    /\ Len(sources) = MAX_SIZE
    /\ counter > MAX_SIZE

\* C8: substitute(substitute(x)) = substitute(x) for every text x whose tag
\* mentions are all live.
C8_Idempotent ==
    (subOut2 # NoText /\ MentionsLive(sources, subIn)) => subOut2 = subOut

\* C9: every occurrence of a live bracketed tag is replaced by the link
\* [title](url) of its entry: the output has at least as many occurrences of
\* the link as the text has of the tag.
C9_LiveTagsBecomeLinks ==
    subOut # NoText =>
        \A i \in 1..Len(sources) :
            Count(subOut, Link(sources[i])) >= Count(subIn, sources[i].tag)

\* C10: a compound list whose tags are all live yields the links of the
\* listed entries in the listed order; when the text is the list alone the
\* output is these links and nothing else.
C10_CompoundExpansion ==
    subOut # NoText =>
        \A i \in 1..Len(subIn) :
            LET e == CompoundEnd(subIn, i)
                names == FindAllTags(SubSeq(subIn, i + 1, e - 1), 1)
            IN (e > 0 /\ \A k \in 1..Len(names) : IsLiveName(sources, names[k]))
               => /\ Contains(subOut, JoinLinks(sources, names))
                  /\ (i = 1 /\ e = Len(subIn))
                        => subOut = JoinLinks(sources, names)

\* what a mention of SOURCE_n is to become: the link of entry n when it is
\* live, nothing when it is not
Rendered(srcs, n) ==
    IF IsLiveName(srcs, Bare(n)) THEN Link(EntryOfName(srcs, Bare(n)))
    ELSE <<>>

\* C11: a bare mention SOURCE_n, alone, as *SOURCE_n*, in parentheses or in a
\* parenthesised comma list, is treated as [SOURCE_n]: it becomes the link of
\* entry n when n is live and is removed when it is not, the surrounding
\* characters staying; a bracketed tag is not wrapped a second time.
C11_BareMentionsLikeBracketed ==
    subOut # NoText =>
        \A a, b \in 1..(MaxIssued + 1) :
            /\ subIn = Bare(a) => subOut = Rendered(sources, a)
            /\ subIn = TagStr(a) => subOut = Rendered(sources, a)
            /\ subIn = <<"*">> \o Bare(a) \o <<"*">>
                  => subOut = <<"*">> \o Rendered(sources, a) \o <<"*">>
            /\ subIn = <<"(">> \o Bare(a) \o <<")">>
                  => subOut = <<"(">> \o Rendered(sources, a) \o <<")">>
            /\ subIn = Cat(<<<<"(">>, Bare(a), <<",", " ">>, Bare(b), <<")">>>>)
                  => subOut = Cat(<<<<"(">>, Rendered(sources, a), <<",", " ">>,
                                   Rendered(sources, b), <<")">>>>)

\* the origin names of the model
OriginNames == {m.source_name : m \in OriginMetas} \ {<<>>}

HasOrigin(srcs, name) == \E i \in 1..Len(srcs) : srcs[i].source_name = name

\* the first-registered live entry with the origin name
FirstOfOrigin(srcs, name) ==
    srcs[CHOOSE i \in 1..Len(srcs) :
            /\ srcs[i].source_name = name
            /\ \A j \in 1..(i - 1) : srcs[j].source_name # name]

\* the text with every "(name)" replaced by the link of the first-registered
\* live entry of that origin, when there is one
RenderOrigin(srcs, t, name) ==
    IF HasOrigin(srcs, name)
    THEN Replace(t, <<"(">> \o name \o <<")">>, Link(FirstOfOrigin(srcs, name)))
    ELSE t

\* C12: on a text without tag mentions, substitute replaces the occurrences
\* of "(name)" of each origin name by the link of the first-registered live
\* entry of that origin, once per call, and changes nothing else; an entry
\* without origin name replaces nothing.  On every text, each "(name)" of the
\* text is found as that link in the output.
C12_FallbackFirstRegisteredWins ==
    /\ (subOut # NoText /\ FindAllTags(subIn, 1) = <<>>)
        => subOut = RenderOrigin(sources,
                                 RenderOrigin(sources, subIn, <<"N">>), <<"M">>)
    /\ subOut # NoText =>
        \A name \in OriginNames :
            HasOrigin(sources, name) =>
                Count(subOut, Link(FirstOfOrigin(sources, name)))
                    >= Count(subIn, <<"(">> \o name \o <<")">>)

\* C12 witness: two live entries share the origin N and have different
\* links, the first carrying "(N)" in its title, and a text with "(N)" and
\* "()" was substituted.
C12_Witness ==
    /\ Len(sources) >= 2
    /\ sources[1].source_name = <<"N">>
    /\ sources[2].source_name = <<"N">>
    /\ sources[1].title = <<"T", "(", "N", ")">>
    /\ sources[2].title = <<"T">>
    /\ Contains(subIn, <<"(", "N", ")">>)
    /\ Contains(subIn, <<"(", ")">>)
    /\ subOut # NoText
    /\ subOut # subIn

\* C13: a register call with an empty or blank url returns the empty tag, a
\* call with a live url returns the tag of its entry, and both leave the
\* entries with their titles, origins and order, the url index and the
\* counter as they were, at capacity too.
C13_NoNewEntryNoChange ==
    [][/\ regUrl' = <<>> => (ret' = <<>> /\ registryVars' = registryVars)
       /\ regUrl' \in DOMAIN url_to_tag
            => (ret' = url_to_tag[regUrl'] /\ registryVars' = registryVars)]_vars

\* C13 witness: the registry is at capacity after an eviction and the last
\* call named the url of its oldest entry, with that entry's tag returned.
C13_Witness ==
    /\ Len(sources) = MAX_SIZE
    /\ counter > MAX_SIZE
    /\ regUrl = sources[1].url
    /\ ret = sources[1].tag
    /\ ret # issued[Len(issued)]

---------------------------------------------------------------------------
(* Properties of ChatHistoryManager *)

\* update has stored the message list of the run
Updated == 1 \in DOMAIN _histories

\* the turns of the message list handed to update
Turns == _split_into_turns(messages)

\* the turn starts with a request that carries the user prompt
StartsWithUserRequest(t) ==
    /\ t # <<>>
    /\ t[1].kind = "request"
    /\ HasUserPrompt(t[1])

\* the places <<message, part>> of the non-blank texts generated in a turn
TextPlaces(t) ==
    {p \in (1..Len(t)) \X (1..4) :
        /\ t[p[1]].kind = "response"
        /\ p[2] <= Len(t[p[1]].parts)
        /\ t[p[1]].parts[p[2]].part_kind = "text"
        /\ Strip(t[p[1]].parts[p[2]].content) # <<>>}

HasAnswer(t) == TextPlaces(t) # {}

\* the last non-empty text generated in the turn
LastAnswer(t) ==
    LET p == CHOOSE p \in TextPlaces(t) :
                \A q \in TextPlaces(t) :
                    q[1] < p[1] \/ (q[1] = p[1] /\ q[2] <= p[2])
    IN t[p[1]].parts[p[2]].content

\* the two records of a completed turn: its request and a response that
\* holds only its last non-empty text; nothing for a turn without answer
RequestAnswerPair(t) ==
    IF HasAnswer(t)
    THEN <<t[1], ModelResponse(<<TextPart(LastAnswer(t))>>)>>
    ELSE <<>>

\* the pairs of the turns j..n, in order
RECURSIVE PairsFrom(_, _, _)
PairsFrom(turns, j, n) ==
    IF j > n THEN <<>>
    ELSE RequestAnswerPair(turns[j]) \o PairsFrom(turns, j + 1, n)

\* the turns from j on: pairs for all but the last, the last in full
CompressedShape(turns, j) ==
    PairsFrom(turns, j, Len(turns) - 1) \o turns[Len(turns)]

\* the hypothesis of C14: two or more turns, each starting with a user
\* request, each completed turn with a non-empty answer text
C14_Hypothesis ==
    /\ Updated
    /\ Len(Turns) >= 2
    /\ \A k \in 1..Len(Turns) : StartsWithUserRequest(Turns[k])
    /\ \A k \in 1..(Len(Turns) - 1) : HasAnswer(Turns[k])

\* C14 as stated: for such a list, get after update returns the pair of
\* every turn but the last, in order, followed by the last turn in full.
C14_CompressionShape ==
    C14_Hypothesis => get(1) = CompressedShape(Turns, 1)

\* C14 amended: the same, for lists whose compressed form (two records for
\* every turn but the last, and the last turn) has at most MAX_HISTORY
\* records.
C14_CompressionShapeWhenItFits ==
    (/\ C14_Hypothesis
     /\ 2 * (Len(Turns) - 1) + Len(Turns[Len(Turns)]) <= MAX_HISTORY)
        => get(1) = CompressedShape(Turns, 1)

\* C14 witness: a list of two or more turns that fits, whose first turn has
\* records between its request and its answer, was stored compressed.
C14_Witness ==
    /\ C14_Hypothesis
    /\ 2 * (Len(Turns) - 1) + Len(Turns[Len(Turns)]) <= MAX_HISTORY
    /\ Len(Turns[1]) >= 3
    /\ Len(Turns[Len(Turns)]) >= 2
    /\ get(1) # messages

\* C15: after update the stored history of the conversation has at most
\* MAX_HISTORY records, for every message list and every configured
\* MAX_HISTORY.
C15_TrimBound == Updated => Len(get(1)) <= MAX_HISTORY

\* C16: for a list whose turns start with a user request, what update stores
\* is a run of whole turns ending with the most recent one: the pairs of the
\* turns from some turn on and the last turn with all its records; no
\* stored turn lacks its request or its answer.
C16_TrimKeepsWholeTurns ==
    (/\ Updated
     /\ messages # <<>>
     /\ \A k \in 1..Len(Turns) : StartsWithUserRequest(Turns[k]))
        => \E j \in 1..Len(Turns) : get(1) = CompressedShape(Turns, j)

\* the message list without the records of its k-th turn
RECURSIVE WithoutTurn(_, _, _)
WithoutTurn(turns, k, i) ==
    IF i > Len(turns) THEN <<>>
    ELSE (IF i = k THEN <<>> ELSE turns[i]) \o WithoutTurn(turns, k, i + 1)

---------------------------------------------------------------------------
(* Properties of OllamaRetryTransport *)

\* C18: the wrapped transport is handed the one sanitized request, at most
\* MAX_RETRIES = 3 times; a response is returned exactly when it is the
\* first whose status is not 500 or the third; every response before it had
\* status 500 and was read to its end before the next send.
C18_RetryOn500 ==
    /\ MAX_RETRIES = 3
    /\ Len(sent) <= MAX_RETRIES
    /\ \A i \in 1..Len(sent) : sent[i] = _sanitize_request(request)
    /\ \A i \in 1..(Len(responses) - 1) : responses[i] = 500
    /\ Len(responses) > 0 =>
         (tpc = "returned"
            <=> (responses[Len(responses)] # 500 \/ Len(responses) = MAX_RETRIES))
    /\ tpc = "returned" =>
         /\ returned = responses[Len(responses)]
         /\ Len(sent) = Len(responses)
         /\ drained = Len(sent) - 1
    /\ tpc = "send" => drained = Len(sent)
    /\ tpc # "returned" => returned = NoResponse

\* C18 witness: 500, 500, 200 were answered to a request with a null
\* content, and the 200 was returned after two retries.
C18_Witness ==
    /\ tpc = "returned"
    /\ responses = <<500, 500, 200>>
    /\ returned = 200
    /\ drained = 2
    /\ sanitized # request

\* the body of the request has a messages list whose elements are objects
HasMessageList(body) ==
    /\ body # ParseError
    /\ body.j = "object"
    /\ HasKey(body, K_messages)
    /\ ValueOf(body, K_messages).j = "array"
    /\ \A i \in 1..Len(ValueOf(body, K_messages).items) :
           ValueOf(body, K_messages).items[i].j = "object"

\* the message has a content field and its value is null
ExplicitNull(msg) == HasKey(msg, K_content) /\ ValueOf(msg, K_content) = JNull

\* the messages of a body
MessagesOf(body) == ValueOf(body, K_messages).items

\* C19: for a request with a messages list, the body sent has the same
\* fields with the same values, but for the messages: each message with an
\* explicit null content has content "" and is otherwise the same, every
\* other message is the same; the content-length header is the length of the
\* body sent and the rest of the request is the same.
C19_NullContentRewritten ==
    (tpc # "idle" /\ HasMessageList(json_loads(request.content))) =>
        LET old == json_loads(request.content)
            new == json_loads(sanitized.content)
        IN /\ new # ParseError
           /\ new.j = "object"
           /\ Len(new.members) = Len(old.members)
           /\ \A i \in 1..Len(old.members) :
                /\ new.members[i].key = old.members[i].key
                /\ old.members[i].key # K_messages
                     => new.members[i].value = old.members[i].value
           /\ HasMessageList(new)
           /\ Len(MessagesOf(new)) = Len(MessagesOf(old))
           /\ \A i \in 1..Len(MessagesOf(old)) :
                LET m == MessagesOf(old)[i]
                    n == MessagesOf(new)[i]
                IN IF ExplicitNull(m)
                   THEN /\ Len(n.members) = Len(m.members)
                        /\ \A k \in 1..Len(m.members) :
                             /\ n.members[k].key = m.members[k].key
                             /\ n.members[k].value =
                                  IF m.members[k].key = K_content THEN JStr(<<>>)
                                  ELSE m.members[k].value
                   ELSE n = m
           /\ sanitized.headers.content_length = Digits(Len(sanitized.content))
           /\ sanitized.headers.content_type = request.headers.content_type
           /\ sanitized.method = request.method
           /\ sanitized.url = request.url

\* C20: a request whose body is no JSON, has no messages list, or has no
\* message with an explicit null content (a message without content field
\* has none) is sent as it was given, and the send takes place.
C20_ForwardedUnchanged ==
    tpc # "idle" =>
        LET body == json_loads(request.content)
        IN /\ (\/ ~HasMessageList(body)
               \/ \A i \in 1..Len(MessagesOf(body)) :
                      ~ExplicitNull(MessagesOf(body)[i]))
                => sanitized = request
           /\ tpc = "send" => ENABLED TransportResponds

---------------------------------------------------------------------------
(* Properties of the handlers and of Praetor.handle_query *)

\* the final messages the callback of run h has received
Finals(h) == SelectSeq(delivered[h], LAMBDA d : d.final)

\* the turn of run h is recorded in a message list
HasTurnOf(history, h) ==
    \E i \in 1..Len(history) :
        history[i] = ModelRequest(<<UserPromptPart(UserText(h))>>)

\* C21: in every turn the delivery callback receives a final message exactly
\* once (the answer, or one failure notice when the run raises), and no
\* exception of the run leaves handle_query.
C21_OneFinalMessagePerTurn ==
    \A h \in Handlers :
        handler[h].kind = "mention" =>
            /\ handler[h].pc # "raised"
            /\ Len(Finals(h)) <= 1
            /\ handler[h].pc = "returned" => Len(Finals(h)) = 1

\* C22: the final text handed to the callback holds no think block and no
\* [SOURCE_N] placeholder, and the history of the conversation was stored
\* before it was handed over.
C22_FinalTextResolved ==
    \A h \in Handlers :
        \A i \in 1..Len(delivered[h]) :
            delivered[h][i].final =>
                /\ strip_think_tags(delivered[h][i].text) = delivered[h][i].text
                /\ ~HasTagSyntax(delivered[h][i].text)
                /\ get_history(handler[h].chat_id) # <<>>

\* C23: two turns of one conversation id never run at the same time, and
\* when both have stored their messages the history holds both turns.
C23_OneTurnInFlightPerId ==
    \A h1, h2 \in Handlers :
        (/\ h1 # h2
         /\ handler[h1].kind = "mention"
         /\ handler[h2].kind = "mention"
         /\ handler[h1].chat_id = handler[h2].chat_id) =>
            /\ ~(handler[h1].pc = "run" /\ handler[h2].pc = "run")
            /\ (/\ handler[h1].pc \in {"deliver", "returned"}
                /\ handler[h2].pc \in {"deliver", "returned"}) =>
                   /\ HasTurnOf(get_history(handler[h1].chat_id), h1)
                   /\ HasTurnOf(get_history(handler[h1].chat_id), h2)

\* C24: a clear command leaves the history of its conversation id empty and
\* ends with the confirmation reply.
C24_ClearResets ==
    [][\A h \in Handlers :
          (handler[h].pc = "waiting" /\ handler'[h].kind = "clear") =>
              /\ \/ handler'[h].chat_id \notin DOMAIN chat_histories'
                 \/ chat_histories'[handler'[h].chat_id] = <<>>
              /\ handler'[h].pc = "returned"
              /\ replies'[h] = <<ContextCleared>>]_vars

---------------------------------------------------------------------------
(* Properties of the stages of Praetor *)

\* C25: a stage whose budget guard is exhausted (ceilings 3, 4 and 3 for
\* research, write and review; the guard counts every call and is exhausted
\* from call ceiling + 1 on) returns the forcing message instead of doing
\* real work: no agent is invoked, and the review is forced to approval.
C25_ExhaustedStageForced ==
    [][/\ (pc = "research" /\ pc' = "THINKING" /\ researchCalls >= 3) =>
              researchCalls' = researchCalls
       /\ (pc = "write" /\ pc' = "THINKING" /\ writeCalls >= 4) =>
              writeCalls' = writeCalls
       /\ (pc = "reflect" /\ pc' = "THINKING" /\ reviewCalls >= 3) =>
              /\ reviewCalls' = reviewCalls
              /\ StartsWith(tool_return'.text, APPROVED)]_vars

\* a text that begins, after whitespace only, with the letters of
\* "approved" in upper or lower case
BeginsWithApproved(f) ==
    \E i \in 1..(Len(f) + 1) :
        /\ \A k \in 1..(i - 1) : f[k] \in {" ", "\n"}
        /\ i + 7 <= Len(f)
        /\ \A k \in 1..8 :
               f[i + k - 1] \in {<<"A", "P", "P", "R", "O", "V", "E", "D">>[k],
                                 <<"a", "p", "p", "r", "o", "v", "e", "d">>[k]}

\* C28: the reviewer's verdict counts as approved exactly when its output
\* without think blocks begins, after surrounding whitespace and in any
\* case, with "APPROVED"; _reflect then returns a text that begins with
\* "APPROVED", and a text that begins with "IMPROVE" for every other output.
C28_VerdictClassification ==
    tool_return.tool = "reflect" =>
        /\ BeginsWithApproved(strip_think_tags(tool_return.output)) =>
               StartsWith(tool_return.text, APPROVED)
        /\ ~BeginsWithApproved(strip_think_tags(tool_return.output)) =>
               StartsWith(tool_return.text, IMPROVE)

\* C28 witness: a lower-case verdict after a think block and whitespace has
\* been classified as approved.
C28_Witness ==
    /\ tool_return.tool = "reflect"
    /\ tool_return.output =
           <<"<", "t", "h", "i", "n", "k", ">", "x", "<", "/", "t", "h", "i", "n", "k", ">", "\n", " ", "a", "p", "p", "r", "o", "v", "e", "d", ":", " ", "o", "k">>
    /\ tool_return.text =
           <<"A", "P", "P", "R", "O", "V", "E", "D", ":", "\n", "a", "p", "p", "r", "o", "v", "e", "d", ":", " ", "o", "k">>

---------------------------------------------------------------------------
(* Properties of SourceDataBuilder.build *)

\* the tool returns of the last call's requests, in order
RECURSIVE ToolReturnsOf(_, _)
ToolReturnsOf(msgs, i) ==
    IF i > Len(msgs) THEN <<>>
    ELSE (IF msgs[i].kind = "request"
          THEN SelectSeq(msgs[i].parts,
                         LAMBDA part : part.part_kind = "tool-return")
          ELSE <<>>) \o ToolReturnsOf(msgs, i + 1)

\* a tool return build has to skip: a feed-listing tool, or no content
Skipped(part) ==
    \/ part.tool_name \in {<<"l", "i", "s", "t", "_", "g", "o", "v", "_", "r", "s", "s", "_", "f", "e", "e", "d", "s">>,
                           <<"l", "i", "s", "t", "_", "u", "s", "_", "n", "e", "w", "s", "_", "r", "s", "s", "_", "f", "e", "e", "d", "s">>,
                           <<"l", "i", "s", "t", "_", "w", "o", "r", "l", "d", "_", "n", "e", "w", "s", "_", "r", "s", "s", "_", "f", "e", "e", "d", "s">>}
    \/ part.content = PyNone

\* the items of the tool returns that are not skipped, in order
RECURSIVE ItemsFrom(_, _)
ItemsFrom(parts, i) ==
    IF i > Len(parts) THEN <<>>
    ELSE (IF Skipped(parts[i]) THEN <<>>
          ELSE IF parts[i].content.py = "list" THEN parts[i].content.items
          ELSE <<parts[i].content>>) \o ItemsFrom(parts, i + 1)

KeptItems == ItemsFrom(ToolReturnsOf(built.messages, 1), 1)

\* the tool returns that are not skipped and hold an item other than None
Sections ==
    SelectSeq(ToolReturnsOf(built.messages, 1),
              LAMBDA part : ItemsFrom(<<part>>, 1) # <<>> /\
                            \E k \in 1..Len(ItemsFrom(<<part>>, 1)) :
                                ItemsFrom(<<part>>, 1)[k] # PyNone)

\* the lines of a text
Lines(t) == <<"\n">> \o t \o <<"\n">>

HasLine(t, line) == Contains(Lines(t), <<"\n">> \o line \o <<"\n">>)

\* the line of a sourceable item with a tag and an excerpt
SourceLine(item, tag, excerpt) ==
    <<"-", " ">> \o tag \o <<" ">> \o item.title \o <<" ", "[", "v", "i", "a", " ">>
    \o Or3(item.source, item.source_name, item.author_handle)
    \o <<"]", ":", " ">> \o excerpt

\* the excerpts of at most 200 characters of a body
Excerpts(body) ==
    {SubSeq(body, 1, k) : k \in 0..(IF Len(body) < 200 THEN Len(body) ELSE 200)}

\* C26: every sourceable item with a non-empty URL in a tool return that is
\* not skipped has its URL registered, and the text holds a line with the
\* URL's tag, the title, the origin and an excerpt of at most 200 characters
\* of the body; a URL that was in the registry handed to build keeps its tag.
C26_ItemsRegisteredAndCited ==
    built.pc # "none" =>
        \A k \in 1..Len(KeptItems) :
            (KeptItems[k].py = "object" /\ KeptItems[k].source_url # <<>>) =>
                LET item == KeptItems[k]
                    url == Strip(item.source_url)
                IN /\ url \in DOMAIN url_to_tag
                   /\ \E excerpt \in Excerpts(Or3(item.body, item.summary,
                                                  item.text)) :
                          HasLine(built.text,
                                  SourceLine(item, url_to_tag[url], excerpt))
                   /\ (built.registry = "given" /\
                       url \in DOMAIN built.before.u2t) =>
                          url_to_tag[url] = built.before.u2t[url]

\* the section headers in a text
Headers(t) ==
    {i \in 1..Len(Lines(t)) :
        /\ OccursAt(Lines(t), <<"\n", "[">>, i)
        /\ \E j \in (i + 2)..Len(Lines(t)) :
               /\ OccursAt(Lines(t), <<"]", ":", "\n">>, j)
               /\ \A m \in (i + 1)..j : Lines(t)[m] # "\n"}

\* the plain lines "- x" of a text, for the str items x of the model
PlainLines(t) ==
    {i \in 1..Len(Lines(t)) : OccursAt(Lines(t), <<"\n", "-", " ", "x", "\n">>, i)}

\* C27: build skips the tool returns of the feed-listing tools and those
\* without content, renders every item that is not sourceable as a plain
\* line, leaves out a section without items to render, returns the empty
\* text when no section is left, and registers nothing for what it skips.
C27_SkipsAndOmits ==
    built.pc # "none" =>
        /\ built.text = <<>> <=> Sections = <<>>
        /\ Cardinality(Headers(built.text)) = Len(Sections)
        /\ Cardinality(PlainLines(built.text)) =
               Len(SelectSeq(KeptItems, LAMBDA item : item.py = "str"))
        /\ \A i \in 1..Len(sources) :
               sources[i].url \notin DOMAIN built.before.u2t =>
                   \E k \in 1..Len(KeptItems) :
                       /\ KeptItems[k].py = "object"
                       /\ Strip(KeptItems[k].source_url) = sources[i].url
        /\ KeptItems = <<>> =>
               /\ sources = built.before.srcs
               /\ url_to_tag = built.before.u2t
               /\ counter = built.before.n

\* C27 witness: a second pass whose only tool return comes from a
\* feed-listing tool and holds a page with a URL: nothing is rendered and
\* the registry of the first pass is left as it was.
C27_Witness ==
    /\ built.pc = "again"
    /\ built.registry = "given"
    /\ built.messages =
           <<ModelRequest(<<ToolReturn(list_gov_rss_feeds,
                                       FetchedPage(<<"v">>, <<"b">>))>>)>>
    /\ built.text = <<>>
    /\ Len(sources) = 2
    /\ sources = built.before.srcs

---------------------------------------------------------------------------
(* Properties of BrowserManager *)

\* no browser: the references of the manager are all None
NoBrowserState ==
    /\ _browser = NoObject
    /\ _playwright = NoObject
    /\ _idle_task = NoObject

\* no watchdog task is running
WatchdogStopped ==
    \A w \in Launches : watchdog[w].pc \in {"none", "done", "cancelled"}

\* a call of fetch is under way
Fetching == \E f \in Fetchers : fetcher[f].pc # "idle"

\* C29: the browser is launched only by the first fetch that needs it and
\* reused by the later ones, so every Chromium that runs is the browser of
\* the manager; a fetch that fails returns None and leaves the manager
\* without browser, Playwright handle and watchdog, and the fetch called
\* next launches a new browser.
C29_LaunchOnceResetOnFailure ==
    /\ [](\A b \in chromium : b = _browser)
    /\ [][\A f \in Fetchers :
              (fetcher[f].pc # "idle" /\ fetcher'[f].pc = "idle" /\
               fetcher'[f].result # "html") =>
                  /\ fetcher'[f].result = "None"
                  /\ NoBrowserState']_vars
    /\ [][\A f \in Fetchers :
              (NoBrowserState /\ fetcher[f].pc = "idle" /\
               fetcher'[f].pc # "idle") =>
                  fetcher'[f].pc = "starting"]_vars

\* C30: a browser that has been idle for IDLE_TIMEOUT seconds is closed by
\* the watchdog in the end, unless a fetch comes first: the manager is left
\* without browser and Playwright handle and no watchdog runs; a fetch
\* called after that time, when no watchdog runs, launches a new browser.
C30_IdleBrowserClosed ==
    /\ (_browser # NoObject /\ idle >= IDLE_TIMEOUT /\ ~Fetching)
           ~> ((NoBrowserState /\ WatchdogStopped) \/ Fetching)
    /\ [][\A f \in Fetchers :
              (idle >= IDLE_TIMEOUT /\ WatchdogStopped /\ ~Fetching /\
               fetcher'[f].pc # "idle") =>
                  fetcher'[f].pc = "starting"]_vars

---------------------------------------------------------------------------
(* Properties of ChatHistoryManager.get, update and clear *)

\* get(chat_id) on the histories d
GetFrom(d, chat_id) == IF chat_id \in DOMAIN d THEN d[chat_id] ELSE <<>>

\* C31: get returns the empty history for an id that was never updated or
\* was cleared since its last update; clear of an id without history does
\* not raise and changes nothing; update and clear of one id leave the
\* history of every other id as it was.
C31_PerIdHistories ==
    /\ called.op # "raised"
    /\ called.op = "none" => \A c \in StoreIds : get(c) = <<>>
    /\ called.op = "clear" =>
           /\ get(called.chat_id) = <<>>
           /\ called.chat_id \notin DOMAIN called.before =>
                  _histories = called.before
    /\ called.op \in {"update", "clear"} =>
           \A c \in StoreIds \ {called.chat_id} :
               /\ get(c) = GetFrom(called.before, c)
               /\ c \in DOMAIN _histories <=> c \in DOMAIN called.before

\* C31 witness: clear of an id that has no history, while two other ids
\* keep their different histories.
C31_Witness ==
    /\ called.op = "clear"
    /\ called.chat_id \notin DOMAIN called.before
    /\ \E c, d \in StoreIds \ {called.chat_id} :
           /\ c # d
           /\ get(c) # <<>>
           /\ get(d) # <<>>
           /\ get(c) # get(d)

---------------------------------------------------------------------------
(* Further properties of SourceRegistry.register *)

\* the tags of the live entries
LiveTags(srcs) == {srcs[i].tag : i \in 1..Len(srcs)}

\* C32: the entries and the url index are inverse to each other: the url of
\* each live entry maps back to its tag, each indexed url has a live entry
\* with that tag and that url, no two live entries share a url or a tag,
\* and the index has as many urls as there are live entries.
C32_MapsInverse ==
    /\ \A i \in 1..Len(sources) :
           /\ sources[i].url \in DOMAIN url_to_tag
           /\ url_to_tag[sources[i].url] = sources[i].tag
    /\ \A u \in DOMAIN url_to_tag :
           \E i \in 1..Len(sources) :
               sources[i].url = u /\ sources[i].tag = url_to_tag[u]
    /\ \A i, j \in 1..Len(sources) :
           i # j => (sources[i].url # sources[j].url
                     /\ sources[i].tag # sources[j].tag)
    /\ Cardinality(DOMAIN url_to_tag) = Len(sources)

\* C32 witness: a full registry after an eviction, the last call having
\* registered again a url whose first entry was evicted.
C32_Witness ==
    /\ Len(sources) = MAX_SIZE
    /\ counter > MAX_SIZE + 1
    /\ regUrl # <<>>
    /\ ret = issued[Len(issued)]
    /\ sources[Len(sources)].url = regUrl
    /\ \E i \in 1..(Len(issued) - 1) : issued[i] \notin LiveTags(sources)

\* C33: a register call for a url that was registered before and is no
\* longer live creates a new live entry whose tag number is greater than
\* every number issued before, and a tag that was issued and is not live
\* is not live after any later call.
C33_FreshTagAfterEviction ==
    /\ [][(regUrl' # <<>> /\ lastTag[regUrl'] # <<>>
            /\ regUrl' \notin DOMAIN url_to_tag)
           => (/\ Len(issued') = Len(issued) + 1
               /\ ret' = issued'[Len(issued')]
               /\ ret' # lastTag[regUrl']
               /\ \A i \in 1..Len(issued) :
                      TagNum(ret') > TagNum(issued[i])
               /\ \E k \in 1..Len(sources') :
                      sources'[k].tag = ret' /\ sources'[k].url = regUrl')]_vars
    /\ [][\A i \in 1..Len(issued) :
               issued[i] \notin LiveTags(sources)
                   => issued[i] \notin LiveTags(sources')]_vars

\* C33 witness: the last call registered again a url whose earlier entry
\* was evicted, and the earlier tag of another evicted url is not live.
C33_Witness ==
    /\ regUrl # <<>>
    /\ Len(issued) > MAX_SIZE + 1
    /\ ret = issued[Len(issued)]
    /\ \E i \in 1..(Len(issued) - 1) :
           /\ issued[i] \notin LiveTags(sources)
           /\ issued[i] # ret
    /\ Cardinality({u \in DOMAIN lastTag : lastTag[u] # <<>>}) < Len(issued)

---------------------------------------------------------------------------
(* Further properties of SourceDataBuilder.build *)

\* the tags [SOURCE_n] that occur in a text
TagsIn(t) == {TagStr(n) : n \in {k \in 1..counter : Contains(t, TagStr(k))}}

\* C34: every tag in the text build returns is live in the registry build
\* returns, and no item line of the text has an empty tag.
C34_ShownTagsLive ==
    built.pc # "none" =>
        /\ TagsIn(built.text) \subseteq LiveTags(sources)
        /\ ~Contains(Lines(built.text), <<"\n", "-", " ", " ">>)

---------------------------------------------------------------------------
(* Further properties of SourceRegistry.substitute *)

\* the tags [SOURCE_<word characters>] of the mentions in a text
MentionedTags(t) ==
    {<<"[">> \o FindAllTags(t, 1)[k] \o <<"]">> : k \in 1..Len(FindAllTags(t, 1))}

\* C35: the output of substitute holds the link of an entry only if the
\* text mentions the tag of that entry.  Stated for registries whose
\* entries have no origin name, where the fallback pass renders no link.
C35_LinkOfMentionedTagOnly ==
    (subOut # NoText /\ \A i \in 1..Len(sources) : sources[i].source_name = <<>>)
        => \A i \in 1..Len(sources) :
               Contains(subOut, Link(sources[i]))
                   => sources[i].tag \in MentionedTags(subIn)

---------------------------------------------------------------------------
(* Further properties of ChatHistoryManager *)

\* the turns of the stored history
StoredTurns == _split_into_turns(get(1))

\* a record with a user prompt followed by a response with one text part
IsPair(t) ==
    /\ Len(t) = 2
    /\ StartsWithUserRequest(t)
    /\ t[2].kind = "response"
    /\ Len(t[2].parts) = 1
    /\ t[2].parts[1].part_kind = "text"

\* C36: after update every stored turn but the last is a pair of a record
\* with a user prompt and a response with a single text part, and the
\* stored history has no more records than the list handed to update.
\* Stated for a positive MAX_HISTORY (C15 is about MAX_HISTORY = 0).
C36_StoredPairsNoLonger ==
    (Updated /\ MAX_HISTORY > 0) =>
        /\ \A k \in 1..(Len(StoredTurns) - 1) : IsPair(StoredTurns[k])
        /\ Len(get(1)) <= Len(messages)

\* C37: update(id, m) followed by update(id, get(id)) leaves the stored
\* history of the conversation as the first update stored it.
C37_CompressionIdempotent ==
    called.op = "again" =>
        /\ called.chat_id \in DOMAIN called.before
        /\ get(called.chat_id) = GetFrom(called.before, called.chat_id)

\* C37 witness: the second update ran on a history of several turns that
\* the first update had compressed and trimmed to MAX_HISTORY records, the
\* first of them a response.
C37_Witness ==
    /\ called.op = "again"
    /\ Len(get(1)) = MAX_HISTORY
    /\ Len(get(1)) < Len(messages)
    /\ Len(StoredTurns) >= 3
    /\ get(1)[1].kind = "response"

---------------------------------------------------------------------------
(* Further properties of OllamaRetryTransport *)

\* C39: a response whose status is not 500 is returned by the send that
\* received it, so a first response with such a status is returned after
\* exactly one send; when the wrapped transport raises, the exception
\* leaves handle_async_request with nothing returned; after a return or an
\* exception nothing more is sent.
C39_NoRetryOnOtherStatusOrException ==
    /\ [][(/\ tpc = "send"
            /\ Len(responses') > Len(responses)
            /\ responses'[Len(responses')] # 500)
           => (/\ tpc' = "returned"
               /\ returned' = responses'[Len(responses')]
               /\ Len(sent') = Len(sent) + 1)]_vars
    /\ []((tpc = "returned" /\ responses[1] # 500) => Len(sent) = 1)
    /\ [][(tpc = "send" /\ sent' # sent /\ responses' = responses)
           => (tpc' = "raised" /\ returned' = NoResponse)]_vars
    /\ [][(tpc = "returned" \/ tpc = "raised") => (sent' = sent)]_vars

\* C39 witness: the first response had status 503 and was returned after
\* one send, nothing drained.
C39_Witness ==
    /\ tpc = "returned"
    /\ responses = <<503>>
    /\ returned = 503
    /\ Len(sent) = 1
    /\ drained = 0

---------------------------------------------------------------------------
(* Further properties of BrowserManager *)

\* the watchdog tasks that have not ended
RunningWatchdogs ==
    {w \in Launches : watchdog[w].pc \in {"sleeping", "closing_browser",
                                          "stopping"}}

\* C38: with calls of fetch interleaved in any way, at most one Chromium
\* and at most one watchdog task exist at a time; a Chromium the manager
\* no longer refers to is closed in the end; the close of a fetch that
\* failed does not close the browser another fetch is rendering with.
C38_OneBrowserUnderInterleaving ==
    /\ [](Cardinality(chromium) <= 1)
    /\ [](Cardinality(RunningWatchdogs) <= 1)
    /\ \A b \in Launches :
           (b \in chromium /\ b # _browser) ~> (b \notin chromium)
    /\ [][\A f, g \in Fetchers :
              (/\ f # g
               /\ fetcher[f].pc = "closing_browser"
               /\ fetcher'[f].pc # "closing_browser"
               /\ fetcher[g].pc = "render"
               /\ fetcher[g].browser \in chromium)
                  => fetcher[g].browser \in chromium']_vars

=============================================================================
